---- MODULE Spec2Model ----
(***************************************************************************)
(* A model of src/core/garden.cu: the per-level best-split finder of the   *)
(* GPU gradient-boosted tree trainer (TaylorApproximationBuilder), its     *)
(* 64-bit atomic max-with-index primitive (updateAtomicMax) and the        *)
(* stream pipeline of FindBestSplits.                                      *)
(*                                                                         *)
(* Arithmetic is exact: gradients and feature values are integers, a gain  *)
(* is kept multiplied by GainScale (a common multiple of every denominator *)
(* count + lambda), feature values are even so that the midpoint of two of *)
(* them is an integer.  Floating-point rounding is outside the model.      *)
(* The scalar-gradient instantiation <node_type, float, float|double> is   *)
(* modelled.  Arrays keep the source's 0-based indices (functions over     *)
(* 0..n-1).                                                                *)
(*                                                                         *)
(* Several specifications share the module:                                *)
(*   Spec / SpecPair  one builder (or two builders fed the same inputs)    *)
(*                    growing one tree level by level;                     *)
(*   SpecAtomic       threads of gain_kernel racing in updateAtomicMax on  *)
(*                    one result cell, one memory operation per step;      *)
(*   SpecPipe         the host loop of FindBestSplits against the streams, *)
(*                    which complete their queued work asynchronously;     *)
(*   SpecGain         one call of gain_func in a binary floating-point     *)
(*                    format of few mantissa bits, rounding every result.  *)
(***************************************************************************)
EXTENDS Integers, Sequences, FiniteSets, TLC

VARIABLES
  dm,        \* io::DataMatrix: rows, columns_dense, columns_sparse, data, index, lil_column, lil_row
  grad,      \* objective->grad, the gradient of every row (the label's slice)
  param,     \* TreeParam: depth, min_leaf_size, lambda
  run,       \* builder id -> the builder's state (TaylorApproximationBuilder fields, the tree, the position in GrowTree)
  cell,      \* SpecAtomic: the 64-bit result cell, [gain, index]
  thr,       \* SpecAtomic: thread -> [val1, val2, loctest, pc]
  pipe,      \* SpecPipe: the host loop of FindBestSplits and the streams
  unit       \* SpecGain: one call of the gain evaluator, its arguments and results

vars == <<dm, grad, param, run, cell, thr, pipe, unit>>

----------------------------------------------------------------------------
(* Bounds of the model *)

NRows == 3          \* data->rows
MaxColumns == 2     \* data->columns is in 1..MaxColumns
MaxDense == 1       \* data->columns_dense is in 0..MaxDense
MaxSparse == 1      \* data->columns_sparse is in 0..MaxSparse
MaxMinLeaf == 1     \* param.min_leaf_size is in 0..MaxMinLeaf
MaxLambda == 0      \* param.lambda is in 0..MaxLambda
Depth == 3          \* param.depth: levels 0..Depth-2 are split; 2^(Depth-2) <= NRows, a slot's sum has NRows elements
MaxThreads == 3     \* SpecAtomic: threads racing on one cell
MaxGain == 3        \* SpecAtomic: candidate gains are in 1..MaxGain
MaxTake == 4        \* SpecPipe: sampled features per level
MaxOverlap == 4     \* SpecPipe: overlap_depth is in 1..MaxOverlap

GradValues == {-1, 1}        \* the values a gradient takes
OverlapDepths == {1, 2, 4}   \* config.overlap of a builder

----------------------------------------------------------------------------
(* Floating-point special values *)

NegInf == -1000000   \* -std::numeric_limits<float>::infinity()
PosInf == 1000000    \* std::numeric_limits<float>::infinity()

RECURSIVE Factorial(_)
Factorial(n) == IF n <= 1 THEN 1 ELSE n * Factorial(n - 1)

\* Every gain is kept as GainScale * gain, an integer: GainScale is a multiple of
\* every denominator (count + lambda) that gain_func divides by, for up to
\* NRows + 1 rows and a lambda up to MaxLambda + 1.
GainScale == Factorial(NRows + MaxLambda + 2)

\* GainScale * (+infinity) and a NaN gain.  The code only ever tests a gain by
\* "gain > x" with x >= 0, which is false of a NaN: NaNGain is below every such x.
InfGain == GainScale * PosInf
NaNGain == 0 - 1

Pow2(n) == 2 ^ n

\* a - b on size_t / unsigned int: a difference below zero wraps around to a huge
\* count.  SizeMod stands for the 2^64 (2^32) of the type; the checker's integers
\* have 32 bits.
SizeMod == Pow2(20)
SizeSub(a, b) == (a - b) % SizeMod

Max(S) == CHOOSE x \in S : \A y \in S : y <= x

RECURSIVE SumOver(_, _)
\* Sum of f[i] over the finite set S of indices
SumOver(f, S) ==
  IF S = {} THEN 0
  ELSE LET i == CHOOSE x \in S : TRUE IN f[i] + SumOver(f, S \ {i})

----------------------------------------------------------------------------
(* GainEvaluator *)

\* One term x*x / d of gain_func, times GainScale, in IEEE arithmetic:
\* 0/0 is NaN and x/0 is +infinity.  The division is exact for every count + lambda
\* of a leaf; against a wrapped-around (huge) count the term is below the precision
\* of the sum it is added to, and the integer division leaves 0.
Quad(x, d) ==
  IF d = 0 THEN (IF x = 0 THEN NaNGain ELSE InfGain)
  ELSE (GainScale * x * x) \div d

\* l + r - p in IEEE arithmetic (p is finite whenever it is used with an
\* infinite l or r: total_count >= 1 in every call)
GainSum(l, r, p) ==
  IF l = NaNGain \/ r = NaNGain \/ p = NaNGain THEN NaNGain
  ELSE IF l = InfGain \/ r = InfGain THEN (IF p = InfGain THEN NaNGain ELSE InfGain)
  ELSE IF p = InfGain THEN NaNGain
  ELSE l + r - p

\* gain_func(float left_sum, float total_sum, size_t left_count, size_t total_count, params):
\* the counts are converted to size_t on the way in
gain_func(left_sum, total_sum, left_count, total_count, params) ==
  LET lc == left_count % SizeMod
      tc == total_count % SizeMod
      right_count == SizeSub(tc, lc)
  IN IF lc >= params.min_leaf_size /\ right_count >= params.min_leaf_size
     THEN LET right_sum == total_sum - left_sum
              l == Quad(left_sum, lc + params.lambda)
              r == Quad(right_sum, right_count + params.lambda)
              p == Quad(total_sum, tc + params.lambda)
          IN GainSum(l, r, p)
     ELSE 0

----------------------------------------------------------------------------
(* Arrays and device primitives *)

Size(a) == Cardinality(DOMAIN a)

\* The array a, evaluated once (comparing an array makes the checker tabulate it)
Array(a) == IF a = a THEN a ELSE a

Zeros(n) == [i \in 0..(n - 1) |-> 0]

\* The permutations of 0..n-1, as arrays
Perms(n) == {p \in [0..(n - 1) -> 0..(n - 1)] : \A x, y \in 0..(n - 1) : p[x] = p[y] => x = y}

\* The place of input element i in the output of a stable sort of keys[0..n-1]
StableRank(keys, n, i) ==
  Cardinality({k \in 0..(n - 1) : keys[k] < keys[i] \/ (keys[k] = keys[i] /\ k < i)})

\* cub::DeviceRadixSort::SortPairs(keys_in, keys_out, values_in, values_out, n, 0, end_bit):
\* a stable sort of the pairs by the low end_bit bits of the key; elements n.. of the
\* output buffers are not written.
SortPairs(keys_in, keys_out, values_in, values_out, n, end_bit) ==
  LET key == Array([i \in 0..(n - 1) |-> keys_in[i] % Pow2(end_bit)])
      src == Array([o \in 0..(n - 1) |->
                      CHOOSE i \in 0..(n - 1) : StableRank(key, n, i) = o])
  IN [keys |-> Array([o \in DOMAIN keys_out |->
                        IF o < n THEN keys_in[src[o]] ELSE keys_out[o]]),
      values |-> Array([o \in DOMAIN values_out |->
                          IF o < n THEN values_in[src[o]] ELSE values_out[o]])]

\* gather_kernel_simple: out1[i] = in1[position[i]] for i < n
gather_kernel_simple(position, in1, out1, n) ==
  Array([i \in DOMAIN out1 |-> IF i < n THEN in1[position[i]] ELSE out1[i]])

\* gather: for i < n, index = position[i]; out[index] = in[index]
gather(position, in, out, n) ==
  Array([x \in DOMAIN out |->
           IF \E i \in 0..(n - 1) : position[i] = x THEN in[x] ELSE out[x]])

\* gather_kernel_temp, launched as one thread block (rows <= blockSizeGather): every
\* tmp[i] = data[position[i]] is read before __syncthreads, every out[i] = tmp[i] is
\* written after it, so data and out may be the same buffer.  data and out are the
\* arrays from their first permuted element on (fvalue + 1).
gather_kernel_temp(position, data, out, n) ==
  LET tmp == Array([i \in 0..(n - 1) |-> data[position[i]]])
  IN Array([i \in DOMAIN out |-> IF i < n THEN tmp[i] ELSE out[i]])

\* cub::DeviceScan::ExclusiveScan(in, out, Sum, initial_value, n)
ExclusiveScan(in, out, initial_value, n) ==
  Array([i \in DOMAIN out |->
           IF i < n THEN initial_value + SumOver(in, 0..(i - 1)) ELSE out[i]])

\* cub::DeviceReduce::Sum(in + offset, out, num_items)
ReduceSum(in, offset, num_items) == SumOver(in, offset..(offset + num_items - 1))

----------------------------------------------------------------------------
(* AtomicMaxWithIndex and the gain kernel *)

ZeroCell == [gain |-> 0, index |-> 0]

\* Faulty variant of updateAtomicMax_results: a later writer replaces the cell
\* whatever its gain
updateAtomicLast_results(U) ==
  IF U = {} THEN {[gain |-> 0, index |-> 0]} ELSE U

\* What the threads of one gain_kernel launch can leave in a zero-initialized cell
\* after calling updateAtomicMax with the updates U (a set of [gain, index], every
\* gain > 0): the largest gain, with the index of any update that brought it (the
\* loop replaces the cell only by a strictly larger gain, so among equal gains the
\* first to arrive stays; which one arrives first is the scheduler's choice).
updateAtomicMax_results(U) ==
  IF U = {} THEN {ZeroCell}
  ELSE {u \in U : \A v \in U : v.gain <= u.gain}

\* The updates gain_kernel issues on res[segment]: one for every sort position i < n
\* with fvalues[i + 1] # fvalues[i] whose gain is > 0
gain_kernel_updates(left_sum, fvalues, segments, parent_sum_iter, parent_count_iter, n, parameters, segment) ==
  {[gain |-> gain_func(left_sum[i] - parent_sum_iter[segment],
                       parent_sum_iter[segment + 1] - parent_sum_iter[segment],
                       SizeSub(i, parent_count_iter[segment]),
                       SizeSub(parent_count_iter[segment + 1], parent_count_iter[segment]),
                       parameters),
    index |-> i] :
     i \in {k \in 0..(n - 1) :
              /\ fvalues[k + 1] # fvalues[k]
              /\ segments[k] = segment
              /\ gain_func(left_sum[k] - parent_sum_iter[segment],
                           parent_sum_iter[segment + 1] - parent_sum_iter[segment],
                           SizeSub(k, parent_count_iter[segment]),
                           SizeSub(parent_count_iter[segment + 1],
                                   parent_count_iter[segment]),
                           parameters) > 0}}

\* gain_kernel: the contents of res it can leave, one array per way the atomic
\* updates can be ordered.  res[0..lenght-1] was zeroed before the launch
\* (cudaMemsetAsync); the cells from lenght on are not touched.
gain_kernel(left_sum, fvalues, segments, parent_sum_iter, parent_count_iter, n, parameters, lenght, res) ==
  {r \in [DOMAIN res ->
            UNION {updateAtomicMax_results(
                     gain_kernel_updates(left_sum, fvalues, segments, parent_sum_iter,
                                         parent_count_iter, n, parameters, k)) :
                   k \in 0..(lenght - 1)} \cup {res[k] : k \in DOMAIN res}] :
     \A k \in DOMAIN res :
       IF k < lenght
       THEN r[k] \in updateAtomicMax_results(
                       gain_kernel_updates(left_sum, fvalues, segments, parent_sum_iter,
                                           parent_count_iter, n, parameters, k))
       ELSE r[k] = res[k]}

----------------------------------------------------------------------------
(* The builder: TaylorApproximationBuilder<node_type, float, sum_type> *)

\* _nodeStat.size() and _bestSplit.size(): 1 << (param.depth - 2)
LeafSlots == Pow2(param.depth - 2)

\* Node::HeapOffset(level) and RegTree::ChildNode(parent, isLeft)
HeapOffset(level) == Pow2(level) - 1
ChildNode(parent, isLeft) == 2 * parent + (IF isLeft THEN 1 ELSE 2)

\* Split<sum_type>::Clean() and NodeStat<sum_type>::Clean()
SplitClean ==
  [fid |-> 0 - 1, gain |-> 0, split_value |-> PosInf, split_by_true |-> FALSE,
   count |-> 0, sum_grad |-> 0]
NodeStatClean == [count |-> 0, sum_grad |-> 0, gain |-> 0]

\* _isnan(sum_type): the sum is not finite (NaN, +infinity or -infinity).  The sums
\* of the gradients of the model are exact integers between the two infinities.
_isnan(s) == s <= NegInf \/ s >= PosInf

\* (a + b) * 0.5 on floats; a may be the -infinity sentinel
Midpoint(a, b) == IF a = NegInf \/ b = NegInf THEN NegInf ELSE (a + b) \div 2

\* (int)(param.colsample_bytree * columns): the colsample parameters are kept in
\* halves (1 is 0.5, 2 is 1.0)
TakeByTree(columns) == (param.colsample_bytree * columns) \div 2
\* (int)(param.colsample_bytree * param.colsample_bylevel * columns)
TakeByLevel(columns) ==
  (param.colsample_bytree * param.colsample_bylevel * columns) \div 4

\* Faulty variant of SlotInit: fvalue without the sentinel
SlotInitNoSentinel ==
  [segments |-> Zeros(dm.rows), segments_sorted |-> Zeros(dm.rows),
   position |-> Zeros(dm.rows), position_sorted |-> Zeros(dm.rows),
   grad_sorted |-> Zeros(dm.rows),
   fvalue |-> Zeros(dm.rows + 1),
   sum |-> Zeros(dm.rows),
   results |-> [k \in 0..(LeafSlots - 1) |-> ZeroCell],
   results_h |-> [k \in 0..(LeafSlots - 1) |-> ZeroCell]]

\* A pipeline slot as the constructor leaves it: device_vectors are value-initialized,
\* fvalue[i][0] is the -infinity sentinel
SlotInit ==
  [segments |-> Zeros(dm.rows), segments_sorted |-> Zeros(dm.rows),
   position |-> Zeros(dm.rows), position_sorted |-> Zeros(dm.rows),
   grad_sorted |-> Zeros(dm.rows),
   fvalue |-> [i \in 0..dm.rows |-> IF i = 0 THEN NegInf ELSE 0],
   sum |-> Zeros(dm.rows),
   results |-> [k \in 0..(LeafSlots - 1) |-> ZeroCell],
   results_h |-> [k \in 0..(LeafSlots - 1) |-> ZeroCell]]

\* ProcessDenceFeature up to the exclusive scan: the slot's buffers before the gain
\* kernel is launched.  The feature's values and permutation are uploaded into the
\* slot (the path of a column that is not resident on the device).
DenceFeatureScan(b, active_fid, circular_fid, level) ==
  LET s0 == b.slots[circular_fid]
      n == dm.rows
      lenght == Pow2(level)
      res0 == Array([k \in DOMAIN s0.results |->
                       IF k < lenght THEN ZeroCell ELSE s0.results[k]])
      fv == Array([i \in DOMAIN s0.fvalue |->
                     IF 1 <= i /\ i <= n THEN dm.data[active_fid][i - 1]
                     ELSE s0.fvalue[i]])
      pos == Array([i \in DOMAIN s0.position |->
                      IF i < n THEN dm.index[active_fid][i] ELSE s0.position[i]])
      seg == gather_kernel_simple(pos, b.row2Node, s0.segments, n)
      srt == SortPairs(seg, s0.segments_sorted, pos, s0.position_sorted, n, level + 1)
      gs == gather(srt.values, b.grad_d, s0.grad_sorted, n)
      fv1 == gather_kernel_temp(srt.values, [i \in 0..(n - 1) |-> fv[i + 1]],
                                [i \in 0..(n - 1) |-> fv[i + 1]], n)
      fvs == Array([i \in DOMAIN fv |-> IF i = 0 THEN fv[0] ELSE fv1[i - 1]])
      sm == ExclusiveScan(gs, s0.sum, 0, n)
  IN [s0 EXCEPT !.results = res0, !.fvalue = fvs, !.position = pos, !.segments = seg,
                !.segments_sorted = srt.keys, !.position_sorted = srt.values,
                !.grad_sorted = gs, !.sum = sm]

\* ProcessDenceFeature: the slot after the stream has run the pass, one slot state per
\* outcome of the gain kernel; results_h is the copy of results
ProcessDenceFeature(b, active_fid, circular_fid, level) ==
  LET s1 == DenceFeatureScan(b, active_fid, circular_fid, level)
  IN {[s1 EXCEPT !.results = r, !.results_h = r] :
        r \in gain_kernel(s1.sum, s1.fvalue, s1.segments_sorted, b.parent_node_sum,
                          b.parent_node_count, dm.rows, param, Pow2(level), s1.results)}

\* ProcessSparseFeature (active_fid counts from the first sparse column)
ProcessSparseFeature(b, active_fid, circular_fid, level) ==
  LET s0 == b.slots[circular_fid]
      lenght == Pow2(level)
      feature_size == Size(dm.lil_column[active_fid])
      pos == Array([i \in DOMAIN s0.position |->
                      IF i < feature_size THEN dm.lil_column[active_fid][i]
                      ELSE s0.position[i]])
      seg == gather_kernel_simple(pos, b.row2Node, s0.segments, feature_size)
      srt == SortPairs(seg, s0.segments_sorted, pos, s0.position_sorted, feature_size,
                       level + 1)
      gs == gather(srt.values, b.grad_d, s0.grad_sorted, feature_size)
      stat == b.sparse_stat[active_fid]
      offset == Array([i \in 0..(lenght - 1) |-> SumOver(stat, 0..(i - 1))])
      sm == Array([i \in DOMAIN s0.sum |->
                     IF i < lenght /\ stat[i] # 0 THEN ReduceSum(gs, offset[i], stat[i])
                     ELSE s0.sum[i]])
  IN {[s0 EXCEPT !.position = pos, !.segments = seg, !.segments_sorted = srt.keys,
                 !.position_sorted = srt.values, !.grad_sorted = gs, !.sum = sm]}

\* Faulty variant of GetBestSplitForDenceFeature: the sum is not tested
GetBestSplitForDenceFeatureNoTest(b, active_fid, circular_fid, lenght) ==
  LET sl == b.slots[circular_fid] IN
  [i \in DOMAIN b._bestSplit |->
     IF i < lenght /\ b._nodeStat[i].count > 0
        /\ sl.results_h[i].gain > b._bestSplit[i].gain
     THEN LET index_value == sl.results_h[i].index IN
          [b._bestSplit[i] EXCEPT
             !.fid = active_fid,
             !.gain = sl.results_h[i].gain,
             !.split_value = Midpoint(sl.fvalue[index_value], sl.fvalue[index_value + 1]),
             !.count = SizeSub(index_value, b.parent_node_count_h[i]),
             !.sum_grad = sl.sum[index_value] - b.parent_node_sum_h[i]]
     ELSE b._bestSplit[i]]

\* Faulty variant of GetBestSplitForDenceFeature: >= in place of >
GetBestSplitForDenceFeatureOrEqual(b, active_fid, circular_fid, lenght) ==
  LET sl == b.slots[circular_fid] IN
  [i \in DOMAIN b._bestSplit |->
     IF i < lenght /\ b._nodeStat[i].count > 0
        /\ sl.results_h[i].gain >= b._bestSplit[i].gain
        /\ ~_isnan(sl.sum[sl.results_h[i].index])
     THEN LET index_value == sl.results_h[i].index IN
          [b._bestSplit[i] EXCEPT
             !.fid = active_fid,
             !.gain = sl.results_h[i].gain,
             !.split_value = Midpoint(sl.fvalue[index_value], sl.fvalue[index_value + 1]),
             !.count = SizeSub(index_value, b.parent_node_count_h[i]),
             !.sum_grad = sl.sum[index_value] - b.parent_node_sum_h[i]]
     ELSE b._bestSplit[i]]

\* GetBestSplitForDenceFeature: the new _bestSplit
GetBestSplitForDenceFeature(b, active_fid, circular_fid, lenght) ==
  LET sl == b.slots[circular_fid] IN
  [i \in DOMAIN b._bestSplit |->
     IF i < lenght /\ b._nodeStat[i].count > 0
        /\ sl.results_h[i].gain > b._bestSplit[i].gain
        /\ ~_isnan(sl.sum[sl.results_h[i].index])
     THEN LET index_value == sl.results_h[i].index IN
          [b._bestSplit[i] EXCEPT
             !.fid = active_fid,
             !.gain = sl.results_h[i].gain,
             !.split_value = Midpoint(sl.fvalue[index_value], sl.fvalue[index_value + 1]),
             !.count = SizeSub(index_value, b.parent_node_count_h[i]),
             !.sum_grad = sl.sum[index_value] - b.parent_node_sum_h[i]]
     ELSE b._bestSplit[i]]

\* GetBestSplitForSparseFeature: the new _bestSplit
GetBestSplitForSparseFeature(b, active_fid, columns_dense, circular_fid, lenght) ==
  LET sl == b.slots[circular_fid] IN
  [i \in DOMAIN b._bestSplit |->
     IF i < lenght /\ b.sparse_stat[active_fid][i] # 0 /\ ~_isnan(sl.sum[i])
        /\ gain_func(sl.sum[i], b._nodeStat[i].sum_grad, b.sparse_stat[active_fid][i],
                     b._nodeStat[i].count, param) > b._bestSplit[i].gain
     THEN [b._bestSplit[i] EXCEPT
             !.fid = active_fid + columns_dense,
             !.gain = gain_func(sl.sum[i], b._nodeStat[i].sum_grad,
                                b.sparse_stat[active_fid][i], b._nodeStat[i].count, param),
             !.split_by_true = TRUE,
             !.count = b.sparse_stat[active_fid][i],
             !.sum_grad = sl.sum[i]]
     ELSE b._bestSplit[i]]

----------------------------------------------------------------------------
(* The level and tree drivers *)

\* The constructor: overlap_depth slots, everything else resized and cleared
Builder(overlap) ==
  [overlap_depth |-> overlap,
   active_fids |-> Zeros(dm.columns),
   grad_d |-> Zeros(dm.rows),
   row2Node |-> Zeros(dm.rows),
   _rowIndex2Node |-> Zeros(dm.rows),
   _nodeStat |-> [i \in 0..(LeafSlots - 1) |-> NodeStatClean],
   _bestSplit |-> [i \in 0..(LeafSlots - 1) |-> SplitClean],
   sparse_stat |-> [f \in 0..(dm.columns_sparse - 1) |-> Zeros(LeafSlots)],
   parent_node_sum |-> Zeros(LeafSlots + 1),
   parent_node_count |-> Zeros(LeafSlots + 1),
   parent_node_sum_h |-> Zeros(LeafSlots + 1),
   parent_node_count_h |-> Zeros(LeafSlots + 1),
   slots |-> [c \in 0..(overlap - 1) |-> SlotInit],
   tree |-> [n \in 0..(HeapOffset(param.depth - 1) - 1) |->
               [fid |-> 0, threshold |-> 0, split_by_true |-> FALSE]],
   level |-> 0,
   j |-> 0,
   _trees |-> 0,      \* Garden::_trees.size(): the trees appended after GrowTree returned
   tie |-> FALSE,     \* history: some gain kernel had two sort positions of one leaf at the largest gain
   pc |-> "GrowTree"]

\* Faulty variant of InitGrowingTree: only colsample_bytree is checked
InitGrowingTreeOneCheck(b, shuffled) ==
  [b EXCEPT
     !.grad_d = grad,
     !.active_fids = shuffled,
     !.sparse_stat = [f \in DOMAIN b.sparse_stat |-> Zeros(LeafSlots)],
     !._rowIndex2Node = Zeros(dm.rows),
     !._nodeStat = [i \in DOMAIN b._nodeStat |-> NodeStatClean],
     !._bestSplit = [i \in DOMAIN b._bestSplit |-> SplitClean],
     !.level = 0,
     !.pc = IF TakeByTree(dm.columns) = 0 THEN "too small" ELSE "InitTreeLevel"]

\* GrowTree up to its loop: the gradient slice is copied to the device, then
\* InitGrowingTree.  shuffled is what shuffle(active_fids, rnd) makes of 0..columns-1,
\* a function of the seed.
InitGrowingTree(b, shuffled) ==
  IF TakeByTree(dm.columns) = 0 \/ TakeByLevel(dm.columns) = 0
  THEN [b EXCEPT !.grad_d = grad, !.pc = "too small"]
  ELSE [b EXCEPT
          !.grad_d = grad,
          !.active_fids = shuffled,
          !.sparse_stat = [f \in DOMAIN b.sparse_stat |-> Zeros(LeafSlots)],
          !._rowIndex2Node = Zeros(dm.rows),
          !._nodeStat = [i \in DOMAIN b._nodeStat |-> NodeStatClean],
          !._bestSplit = [i \in DOMAIN b._bestSplit |-> SplitClean],
          !.level = 0,
          !.pc = "InitTreeLevel"]

\* InitTreeLevel: shuffle(active_fids.begin(), active_fids.begin() + take, rnd);
\* p is the permutation of the first take places the engine draws
InitTreeLevel(b, p) ==
  [b EXCEPT
     !.active_fids = [i \in DOMAIN b.active_fids |->
                        IF i < TakeByTree(dm.columns) THEN b.active_fids[p[i]]
                        ELSE b.active_fids[i]],
     !.pc = "UpdateNodeStat"]

\* Faulty variant of ChildSlot: both children at the place of the left child
ChildSlotLeft(i, level, isLeft) == 2 * i

\* The place in _nodeStat of a child of leaf i of the level before `level`
ChildSlot(i, level, isLeft) ==
  ChildNode(i + HeapOffset(level), isLeft) - HeapOffset(level + 1)

\* UpdateNodeStat(level, data, tree).  The count of a NodeStat and of a Split is the
\* integer of the specification ("right child inherits parent.count - best.count"):
\* the right child's count is below zero when best.count is above the parent's.
UpdateNodeStat(b, level) ==
  LET len == Pow2(level)
      tmp == b._nodeStat
      parents == 0..(Pow2(level - 1) - 1)
      stat1 ==
        IF level # 0
        THEN [k \in DOMAIN b._nodeStat |->
                IF \E i \in parents : ChildSlot(i, level, FALSE) = k
                THEN LET i == CHOOSE x \in parents : ChildSlot(x, level, FALSE) = k
                     IN [b._nodeStat[k] EXCEPT
                           !.count = tmp[i].count - b._bestSplit[i].count,
                           !.sum_grad = tmp[i].sum_grad - b._bestSplit[i].sum_grad]
                ELSE IF \E i \in parents : ChildSlot(i, level, TRUE) = k
                THEN LET i == CHOOSE x \in parents : ChildSlot(x, level, TRUE) = k
                     IN [b._nodeStat[k] EXCEPT
                           !.count = b._bestSplit[i].count,
                           !.sum_grad = b._bestSplit[i].sum_grad]
                ELSE b._nodeStat[k]]
        ELSE [b._nodeStat EXCEPT
                ![0] = [@ EXCEPT !.count = dm.rows,
                                 !.sum_grad = SumOver(grad, 0..(dm.rows - 1))]]
      sparse1 ==
        IF level # 0
        THEN [f \in DOMAIN b.sparse_stat |->
                [node \in DOMAIN b.sparse_stat[f] |->
                   Cardinality({r \in 0..(dm.rows - 1) :
                                  /\ (f + dm.columns_dense) \in dm.lil_row[r]
                                  /\ b._rowIndex2Node[r] = node})]]
        ELSE [f \in DOMAIN b.sparse_stat |->
                [b.sparse_stat[f] EXCEPT ![0] = Size(dm.lil_column[f])]]
  IN [b EXCEPT
        !._nodeStat = [k \in DOMAIN stat1 |->
                         IF k < len THEN [stat1[k] EXCEPT !.gain = 0] ELSE stat1[k]],
        !.sparse_stat = sparse1,
        !._bestSplit = [k \in DOMAIN b._bestSplit |->
                          IF k < len THEN SplitClean ELSE b._bestSplit[k]],
        !.pc = "FindBestSplits"]

\* Faulty variant of ParentPrefix: inclusive, element k holds the leaves up to k
ParentPrefixInclusive(old, value, lenght) ==
  [k \in DOMAIN old |->
     IF k <= lenght THEN SumOver(value, {i \in DOMAIN value : i <= k}) ELSE old[k]]

\* Faulty variant of ParentPrefix: element k + 1 is the leaf's value, not accumulated
ParentPrefixFlat(old, value, lenght) ==
  [k \in DOMAIN old |-> IF k = 0 THEN 0 ELSE IF k <= lenght THEN value[k - 1] ELSE old[k]]

\* parent_node_count_h / parent_node_sum_h as the loop of FindBestSplits fills them:
\* element 0 is zero, element i + 1 is element i plus the leaf's value; the elements
\* after lenght keep what they held
ParentPrefix(old, value, lenght) ==
  [k \in DOMAIN old |-> IF k <= lenght THEN SumOver(value, 0..(k - 1)) ELSE old[k]]

\* FindBestSplits up to its feature loop: the row-to-leaf map is copied to the
\* device on stream 0, the parent prefix arrays are built and copied, stream 0 is
\* synchronized
FindBestSplitsBegin(b, level) ==
  LET lenght == Pow2(level)
      sums == ParentPrefix(b.parent_node_count_h,
                           [i \in DOMAIN b._nodeStat |-> b._nodeStat[i].count], lenght)
      \* parent_node_count_h holds unsigned int
      cnt == [k \in DOMAIN sums |-> sums[k] % SizeMod]
      sm == ParentPrefix(b.parent_node_sum_h,
                         [i \in DOMAIN b._nodeStat |-> b._nodeStat[i].sum_grad], lenght)
  IN [b EXCEPT !.row2Node = b._rowIndex2Node,
               !.parent_node_count_h = cnt, !.parent_node_sum_h = sm,
               !.parent_node_count = cnt, !.parent_node_sum = sm,
               !.j = 0, !.pc = "features"]

\* Faulty variant of IssueSet: the inner loop without its continue
IssueSetNoSkip(j, take, overlap_depth) ==
  {i \in 0..(overlap_depth - 1) : (j + i) < take}

\* The inner loop of FindBestSplits at iteration j: the i for which feature j + i is
\* issued.  Iteration 0 primes the pipeline, a later one issues i = overlap_depth - 1.
IssueSet(j, take, overlap_depth) ==
  {i \in 0..(overlap_depth - 1) :
     (j + i) < take /\ ~(j # 0 /\ (i + 1) < overlap_depth)}

\* Faulty variant of IssueSlot: the slot is taken from i alone
IssueSlotByI(j, i, overlap_depth) == i % overlap_depth

\* circular_fid of the inner loop: the slot feature j + i is issued on
IssueSlot(j, i, overlap_depth) == (j + i) % overlap_depth

\* Faulty variant of ConsumeSlot: the slot after the one feature j was issued on
ConsumeNextSlot(j, overlap_depth) == (j + 1) % overlap_depth

\* circular_fid after the inner loop: the slot that is synchronized and whose result
\* is reduced at iteration j
ConsumeSlot(j, overlap_depth) == j % overlap_depth

\* The pass of the feature at place j + i of active_fids on its slot: the states the
\* slot can be in once its stream has run the pass
ProcessFeature(b, j, i, level) ==
  LET active_fid == b.active_fids[j + i]
      circular_fid == IssueSlot(j, i, b.overlap_depth)
  IN IF active_fid < dm.columns_dense
     THEN ProcessDenceFeature(b, active_fid, circular_fid, level)
     ELSE ProcessSparseFeature(b, active_fid - dm.columns_dense, circular_fid, level)

\* The gain kernel of the pass of feature j + i finds the largest gain of some leaf
\* at two sort positions: which of them the cell keeps is up to the order in which
\* the threads reach updateAtomicMax
GainTie(b, j, i, level) ==
  LET active_fid == b.active_fids[j + i]
      s1 == DenceFeatureScan(b, active_fid, IssueSlot(j, i, b.overlap_depth), level)
  IN /\ active_fid < dm.columns_dense
     /\ \E k \in 0..(Pow2(level) - 1) :
          LET U == gain_kernel_updates(s1.sum, s1.fvalue, s1.segments_sorted,
                                       b.parent_node_sum, b.parent_node_count,
                                       dm.rows, param, k)
          IN \E u, v \in U : /\ u.index # v.index
                             /\ u.gain = v.gain
                             /\ \A w \in U : w.gain <= u.gain

RECURSIVE IssueFeatures(_, _)
\* The slots after the features j + i, i in I, were issued (each on its own slot)
IssueFeatures(b, I) ==
  IF I = {} THEN {b.slots}
  ELSE LET i == Max(I)
       IN {[sl EXCEPT ![IssueSlot(b.j, i, b.overlap_depth)] = o] :
             sl \in IssueFeatures(b, I \ {i}), o \in ProcessFeature(b, b.j, i, b.level)}

\* The reduction of feature j into _bestSplit once its slot's stream is synchronized
GetBestSplit(b, j, lenght) ==
  LET circular_fid == ConsumeSlot(j, b.overlap_depth) IN
  IF b.active_fids[j] < dm.columns_dense
  THEN GetBestSplitForDenceFeature(b, b.active_fids[j], circular_fid, lenght)
  ELSE GetBestSplitForSparseFeature(b, b.active_fids[j] - dm.columns_dense,
                                    dm.columns_dense, circular_fid, lenght)

\* One iteration j of the feature loop of FindBestSplits: issue, synchronize slot
\* j % overlap_depth, reduce feature j.  The set of the states it can end in.
FeatureIteration(b) ==
  LET I == IssueSet(b.j, TakeByLevel(dm.columns), b.overlap_depth)
      tied == \E i \in I : GainTie(b, b.j, i, b.level)
  IN {[b EXCEPT !.slots = sl,
                !._bestSplit = GetBestSplit([b EXCEPT !.slots = sl], b.j, Pow2(b.level)),
                !.tie = b.tie \/ tied,
                !.j = b.j + 1] :
        sl \in IssueFeatures(b, I)}

\* Faulty variant of FindBestSplitsEnd: the degenerate split without the leaf's count
FindBestSplitsEndNoCount(b, level) ==
  [b EXCEPT
     !._bestSplit = [i \in DOMAIN b._bestSplit |->
                       IF i < Pow2(level) /\ b._bestSplit[i].fid < 0
                       THEN [b._bestSplit[i] EXCEPT
                               !.gain = 0, !.fid = 0, !.split_value = PosInf,
                               !.sum_grad = b._nodeStat[i].sum_grad]
                       ELSE b._bestSplit[i]],
     !.pc = "UpdateTree"]

\* FindBestSplits after its feature loop: a leaf no feature was accepted for gets
\* the degenerate split
FindBestSplitsEnd(b, level) ==
  [b EXCEPT
     !._bestSplit = [i \in DOMAIN b._bestSplit |->
                       IF i < Pow2(level) /\ b._bestSplit[i].fid < 0
                       THEN [b._bestSplit[i] EXCEPT
                               !.gain = 0, !.fid = 0, !.split_value = PosInf,
                               !.count = b._nodeStat[i].count,
                               !.sum_grad = b._nodeStat[i].sum_grad]
                       ELSE b._bestSplit[i]],
     !.pc = "UpdateTree"]

\* UpdateTree(level, tree)
UpdateTree(b, level) ==
  LET offset == HeapOffset(level) IN
  [b EXCEPT
     !.tree = [n \in DOMAIN b.tree |->
                 IF offset <= n /\ n < offset + Pow2(level)
                 THEN LET best == b._bestSplit[n - offset] IN
                      [threshold |-> best.split_value,
                       split_by_true |-> best.split_by_true,
                       fid |-> IF best.fid < 0 THEN 0 ELSE best.fid]
                 ELSE b.tree[n]],
     !.pc = "UpdateNodeIndex"]

\* The isLeft of UpdateNodeIndex for row i
IsLeft(b, i) ==
  LET best == b._bestSplit[b._rowIndex2Node[i]] IN
  \/ (best.fid < dm.columns_dense /\ dm.data[best.fid][i] <= best.split_value)
  \/ (best.split_by_true /\ best.fid \in dm.lil_row[i])

\* UpdateNodeIndex(level, data, tree), and the step of GrowTree's loop: the next
\* level, or UpdateLeafWeight (leaf weights are not part of the model) and the end,
\* where Garden::GrowTree appends the tree
UpdateNodeIndex(b, level) ==
  [b EXCEPT
     !._rowIndex2Node =
        [i \in DOMAIN b._rowIndex2Node |->
           ChildNode(b._rowIndex2Node[i] + HeapOffset(level), IsLeft(b, i))
             - HeapOffset(level + 1)],
     !.level = level + 1,
     !._trees = IF (level + 2) < param.depth THEN b._trees ELSE b._trees + 1,
     !.pc = IF (level + 2) < param.depth THEN "InitTreeLevel" ELSE "done"]

----------------------------------------------------------------------------
(* Inputs *)

Rows(n) == 0..(n - 1)

\* The elements of a set of numbers as an ascending array
Ascending(S) ==
  [i \in 0..(Cardinality(S) - 1) |->
     CHOOSE x \in S : Cardinality({y \in S : y < x}) = i]

\* data->index[fid]: the permutation that sorts the rows by ascending value of the
\* feature (rows of equal value in row order)
SortedIndex(values) ==
  [o \in DOMAIN values |->
     CHOOSE r \in DOMAIN values : StableRank(values, Size(values), r) = o]

\* The DataMatrix of n rows, dense columns `dense` (column -> row -> value) and
\* sparse columns `sparse` (column -> the set of rows where the feature is true)
DataMatrix(n, dense, sparse) ==
  [rows |-> n,
   columns |-> Size(dense) + Size(sparse),
   columns_dense |-> Size(dense),
   columns_sparse |-> Size(sparse),
   data |-> dense,
   index |-> [f \in DOMAIN dense |-> SortedIndex(dense[f])],
   lil_column |-> [f \in DOMAIN sparse |-> Ascending(sparse[f])],
   lil_row |-> [r \in Rows(n) |->
                  {f + Size(dense) : f \in {g \in DOMAIN sparse : r \in sparse[g]}}]]

\* The columns of a dense feature, up to the order and equality of the values: the
\* values are 2, 4, .., 2m, each taken by some row
DenseColumns(n) ==
  {v \in [Rows(n) -> {2 * k : k \in 1..n}] :
     \A k \in 1..n : (\E r \in Rows(n) : v[r] = 2 * k) =>
                       \A l \in 1..k : \E r \in Rows(n) : v[r] = 2 * l}

\* The colsample parameters are kept in halves: 2 is 1.0, 1 is 0.5
TreeParams(depth, lambdas, colsamples) ==
  [depth : {depth}, min_leaf_size : 0..MaxMinLeaf, lambda : lambdas,
   colsample_bytree : colsamples, colsample_bylevel : colsamples]

\* What GrowTree is given: n rows of up to MaxDense dense and up to MaxSparse sparse
\* columns, columns in all, the gradients of the rows and the parameters
Inputs(n, columns, depth, lambdas, colsamples) ==
  /\ \E cd \in 0..MaxDense, cs \in 0..MaxSparse :
       /\ (cd + cs) \in columns
       /\ \E dense \in [0..(cd - 1) -> DenseColumns(n)],
             sparse \in [0..(cs - 1) -> SUBSET Rows(n)] :
            dm = DataMatrix(n, dense, sparse)
  /\ grad \in [Rows(n) -> GradValues]
  /\ param \in TreeParams(depth, lambdas, colsamples)

\* NRows rows of dense and sparse columns, a tree of Depth levels
\* and both colsample parameters 1.0
InitInputs == Inputs(NRows, 1..MaxColumns, Depth, 0..MaxLambda, {2})

\* One more row and one more level, a single column (dense or sparse), a lambda
\* above zero
InitDeepInputs == Inputs(NRows + 1, {1}, Depth + 1, {MaxLambda + 1}, {2})

\* A single column and colsample parameters of 0.5 and 1.0
InitSampleInputs == Inputs(NRows, {1}, Depth, {0}, {1, 2})

AtomicOff == cell = ZeroCell /\ thr = <<>>
PipeOff == pipe = [pc |-> "off"]
UnitOff == unit = [pc |-> "off"]

\* One builder.  With at most MaxColumns features in a level, a pipeline deeper than
\* MaxColumns slots acts as one of MaxColumns slots.
Init ==
  /\ InitInputs \/ InitDeepInputs \/ InitSampleInputs
  /\ \E overlap \in {d \in OverlapDepths : d <= MaxColumns} :
       run = [r \in {1} |-> Builder(overlap)]
  /\ AtomicOff /\ PipeOff /\ UnitOff

\* Two builders with the same inputs and the same seed: the first of overlap depth 1,
\* the second of any overlap depth
InitPair ==
  /\ InitInputs
  /\ \E overlap \in OverlapDepths :
       run = [r \in {1, 2} |-> Builder(IF r = 1 THEN 1 ELSE overlap)]
  /\ AtomicOff /\ PipeOff /\ UnitOff

----------------------------------------------------------------------------
(* Actions of Spec and SpecPair: the builders run GrowTree in step *)

Builders == DOMAIN run

At(label) == Builders # {} /\ \A r \in Builders : run[r].pc = label

GrowTreeStart ==
  /\ At("GrowTree")
  /\ \E shuffled \in Perms(dm.columns) :
       run' = [r \in Builders |-> InitGrowingTree(run[r], shuffled)]
  /\ UNCHANGED <<dm, grad, param, cell, thr, pipe, unit>>

InitTreeLevelStep ==
  /\ At("InitTreeLevel")
  /\ \E p \in Perms(TakeByTree(dm.columns)) :
       run' = [r \in Builders |-> InitTreeLevel(run[r], p)]
  /\ UNCHANGED <<dm, grad, param, cell, thr, pipe, unit>>

UpdateNodeStatStep ==
  /\ At("UpdateNodeStat")
  /\ run' = [r \in Builders |-> UpdateNodeStat(run[r], run[r].level)]
  /\ UNCHANGED <<dm, grad, param, cell, thr, pipe, unit>>

FindBestSplitsBeginStep ==
  /\ At("FindBestSplits")
  /\ run' = [r \in Builders |-> FindBestSplitsBegin(run[r], run[r].level)]
  /\ UNCHANGED <<dm, grad, param, cell, thr, pipe, unit>>

FeatureIterationStep ==
  /\ At("features")
  /\ \A r \in Builders : run[r].j < TakeByLevel(dm.columns)
  /\ LET last == Max(Builders)
         first == FeatureIteration(run[1])
         second == IF last = 1 THEN first ELSE FeatureIteration(run[last])
     IN \E b1 \in first, b2 \in second :
          run' = [r \in Builders |-> IF r = 1 THEN b1 ELSE b2]
  /\ UNCHANGED <<dm, grad, param, cell, thr, pipe, unit>>

FindBestSplitsEndStep ==
  /\ At("features")
  /\ \A r \in Builders : run[r].j >= TakeByLevel(dm.columns)
  /\ run' = [r \in Builders |-> FindBestSplitsEnd(run[r], run[r].level)]
  /\ UNCHANGED <<dm, grad, param, cell, thr, pipe, unit>>

UpdateTreeStep ==
  /\ At("UpdateTree")
  /\ run' = [r \in Builders |-> UpdateTree(run[r], run[r].level)]
  /\ UNCHANGED <<dm, grad, param, cell, thr, pipe, unit>>

UpdateNodeIndexStep ==
  /\ At("UpdateNodeIndex")
  /\ run' = [r \in Builders |-> UpdateNodeIndex(run[r], run[r].level)]
  /\ UNCHANGED <<dm, grad, param, cell, thr, pipe, unit>>

Next ==
  \/ GrowTreeStart
  \/ InitTreeLevelStep
  \/ UpdateNodeStatStep
  \/ FindBestSplitsBeginStep
  \/ FeatureIterationStep
  \/ FindBestSplitsEndStep
  \/ UpdateTreeStep
  \/ UpdateNodeIndexStep

Spec == Init /\ [][Next]_vars

SpecPair == InitPair /\ [][Next]_vars

----------------------------------------------------------------------------
(* SpecAtomic: the threads of a gain kernel in updateAtomicMax on one cell of res, *)
(* one access of the cell per step                                                *)

Threads == 1..MaxThreads

\* loc: the 64 bits a thread tries to store, floats[0] = val1 and ints[1] = val2
Loc(t) == [gain |-> thr[t].val1, index |-> thr[t].val2]

\* Faulty variant of LoopTest: <= in place of <
LoopTestOrEqual(loctest, val1) == loctest.gain <= val1

\* The test of the while loop: loctest.floats[0] < val1
LoopTest(loctest, val1) == loctest.gain < val1

\* Faulty variant of atomicCAS: the cell is compared and never written
atomicCASNoSwap(old, compare, val) == old

\* Faulty variant of atomicCAS: a plain store that does not compare
atomicStore(old, compare, val) == val

\* atomicCAS(address, compare, val): what the cell holds afterwards; the call returns
\* what it held before
atomicCAS(old, compare, val) == IF old = compare THEN val ELSE old

\* The cell is zero (cudaMemsetAsync); thread t of the kernel is at sort position
\* t - 1, its index, and found a gain > 0 there
InitAtomic ==
  /\ cell = ZeroCell
  /\ \E g \in [Threads -> 1..MaxGain] :
       thr = [t \in Threads |->
                [val1 |-> g[t], val2 |-> t - 1, loctest |-> ZeroCell, pc |-> "read"]]
  /\ dm = <<>> /\ grad = <<>> /\ param = <<>> /\ run = <<>>
  /\ PipeOff /\ UnitOff

\* loctest.ulong = *address
AtomicRead(t) ==
  /\ thr[t].pc = "read"
  /\ thr' = [thr EXCEPT ![t].loctest = cell, ![t].pc = "loop"]
  /\ UNCHANGED <<cell, dm, grad, param, run, pipe, unit>>

\* One iteration of the loop: loctest.ulong = atomicCAS(address, loctest.ulong, loc.ulong)
AtomicLoop(t) ==
  /\ thr[t].pc = "loop"
  /\ LoopTest(thr[t].loctest, thr[t].val1)
  /\ cell' = atomicCAS(cell, thr[t].loctest, Loc(t))
  /\ thr' = [thr EXCEPT ![t].loctest = cell]
  /\ UNCHANGED <<dm, grad, param, run, pipe, unit>>

\* The loop ends: return loctest.ulong
AtomicReturn(t) ==
  /\ thr[t].pc = "loop"
  /\ ~LoopTest(thr[t].loctest, thr[t].val1)
  /\ thr' = [thr EXCEPT ![t].pc = "done"]
  /\ UNCHANGED <<cell, dm, grad, param, run, pipe, unit>>

NextAtomic == \E t \in Threads : AtomicRead(t) \/ AtomicLoop(t) \/ AtomicReturn(t)

SpecAtomic == InitAtomic /\ [][NextAtomic]_vars

\* The threads of a launched kernel all get to run: a thread that can take a step
\* of updateAtomicMax takes one in the end
SpecAtomicFair ==
  /\ InitAtomic
  /\ [][NextAtomic]_vars
  /\ \A t \in 1..MaxThreads : WF_vars(AtomicRead(t) \/ AtomicLoop(t) \/ AtomicReturn(t))

----------------------------------------------------------------------------
(* SpecPipe: the feature loop of FindBestSplits and the streams.  A pass issued on *)
(* a slot is queued on the slot's stream; the stream runs its queue in order, at   *)
(* its own pace; the pass leaves its result in the slot's host mirror results_h.   *)

Slots == 0..(pipe.overlap_depth - 1)

InitPipe ==
  /\ \E take \in 1..MaxTake, overlap \in 1..MaxOverlap :
       pipe = [take |-> take, overlap_depth |-> overlap,
               j |-> 0, i |-> 0, pc |-> "issue",
               queue |-> [c \in 0..(overlap - 1) |-> <<>>],    \* passes queued on the stream
               held |-> [c \in 0..(overlap - 1) |-> 0 - 1],    \* the pass whose result results_h holds
               unreduced |-> [c \in 0..(overlap - 1) |-> {}],  \* passes issued and not yet reduced
               issued |-> <<>>,                                \* the places issued, in order
               reduced |-> <<>>]                               \* the places reduced into _bestSplit, in order
  /\ dm = <<>> /\ grad = <<>> /\ param = <<>> /\ run = <<>>
  /\ AtomicOff /\ UnitOff

\* The i of the inner loop still to be issued at this iteration
ToIssue == {i \in IssueSet(pipe.j, pipe.take, pipe.overlap_depth) : i >= pipe.i}

\* The inner loop reaches the next i that is not skipped: ProcessDenceFeature or
\* ProcessSparseFeature queues the pass of feature j + i on its slot's stream
PipeIssue ==
  /\ pipe.pc = "issue"
  /\ ToIssue # {}
  /\ LET i == CHOOSE x \in ToIssue : \A y \in ToIssue : x <= y
         c == IssueSlot(pipe.j, i, pipe.overlap_depth)
     IN pipe' = [pipe EXCEPT !.queue[c] = Append(@, pipe.j + i),
                             !.unreduced[c] = @ \cup {pipe.j + i},
                             !.issued = Append(@, pipe.j + i),
                             !.i = i + 1]
  /\ UNCHANGED <<dm, grad, param, run, cell, thr, unit>>

\* The stream of slot c runs the pass at the head of its queue
StreamRun(c) ==
  /\ pipe.pc # "off"
  /\ c \in Slots
  /\ pipe.queue[c] # <<>>
  /\ pipe' = [pipe EXCEPT !.queue[c] = Tail(@), !.held[c] = Head(pipe.queue[c])]
  /\ UNCHANGED <<dm, grad, param, run, cell, thr, unit>>

\* cudaStreamSynchronize(streams[circular_fid]) returns once the stream is idle
PipeSync ==
  /\ pipe.pc = "issue"
  /\ ToIssue = {}
  /\ pipe.queue[ConsumeSlot(pipe.j, pipe.overlap_depth)] = <<>>
  /\ pipe' = [pipe EXCEPT !.pc = "reduce"]
  /\ UNCHANGED <<dm, grad, param, run, cell, thr, unit>>

\* GetBestSplitFor..Feature(active_fids[j], circular_fid, lenght) reduces what the
\* slot's host mirror holds; then the next iteration
PipeReduce ==
  /\ pipe.pc = "reduce"
  /\ LET c == ConsumeSlot(pipe.j, pipe.overlap_depth)
     IN pipe' = [pipe EXCEPT !.reduced = Append(@, pipe.held[c]),
                             !.unreduced[c] = @ \ {pipe.held[c]},
                             !.j = pipe.j + 1,
                             !.i = 0,
                             !.pc = IF (pipe.j + 1) < pipe.take THEN "issue" ELSE "done"]
  /\ UNCHANGED <<dm, grad, param, run, cell, thr, unit>>

NextPipe ==
  \/ PipeIssue
  \/ \E c \in 0..(MaxOverlap - 1) : StreamRun(c)
  \/ PipeSync
  \/ PipeReduce

SpecPipe == InitPipe /\ [][NextPipe]_vars

----------------------------------------------------------------------------
(* Properties of updateAtomicMax, under SpecAtomic *)

Submitted == {Loc(t) : t \in DOMAIN thr}

AllReturned == thr # <<>> /\ \A t \in DOMAIN thr : thr[t].pc = "done"

\* C2: once every thread has returned from updateAtomicMax, the cell holds the
\* largest gain submitted together with an index that was submitted with that gain,
\* whatever the interleaving of the reads and compare-and-swaps was.
C2_AtomicMax == AllReturned => cell \in updateAtomicMax_results(Submitted)

\* Every thread has returned, two threads submitted the largest gain, a third a
\* smaller one, and the cell holds the pair of the thread with the larger index
C2_Witness ==
  /\ AllReturned
  /\ \E t, u, v \in DOMAIN thr :
       /\ t < u /\ thr[t].val1 = thr[u].val1 /\ thr[v].val1 < thr[u].val1
       /\ cell = Loc(u)

\* C3: the cell changes only in a compare-and-swap of a thread whose gain is
\* strictly greater than the gain the cell holds, and then to that thread's
\* (gain, index); a thread whose gain is at most the cell's leaves the cell as it is;
\* so the gain never decreases and the index only changes together with the gain.
C3_StrictReplace ==
  [][/\ cell' # cell =>
          \E t \in DOMAIN thr :
             thr[t].pc = "loop" /\ cell' = Loc(t) /\ cell.gain < thr[t].val1
     /\ \A t \in DOMAIN thr :
          (thr'[t] # thr[t] /\ thr[t].val1 <= cell.gain) => cell' = cell
     /\ cell'.gain >= cell.gain
     /\ cell'.gain = cell.gain => cell'.index = cell.index]_vars

\* Two threads of equal gain have returned and the cell holds the pair of one of
\* them: the other call left the cell unchanged
C3_Witness ==
  \E t, u \in DOMAIN thr :
    /\ t # u /\ thr[t].val1 = thr[u].val1
    /\ thr[t].pc = "done" /\ thr[u].pc = "done"
    /\ thr[u].loctest = Loc(t)
    /\ cell = Loc(t)

\* The step is a compare-and-swap of thread t that fails
FailedCAS(t) ==
  /\ thr[t].pc = "loop" /\ thr'[t] # thr[t]
  /\ LoopTest(thr[t].loctest, thr[t].val1)
  /\ cell # thr[t].loctest

\* A thread leaves the loop only when the gain it observed last, in the cell or as
\* the result of a compare-and-swap, is not less than its candidate
ExitsOnObservedGain ==
  \A t \in DOMAIN thr :
    (thr[t].pc = "loop" /\ thr'[t].pc = "done") => thr[t].loctest.gain >= thr[t].val1

----------------------------------------------------------------------------
(* Properties of the feature pipeline, under SpecPipe *)

PipeOn == pipe.pc # "off"

\* C4: the results are reduced into _bestSplit in the order the features were
\* scheduled, place 0, 1, ..., take - 1 of active_fids, for every overlap depth and
\* every take, whatever the order in which the streams complete; at the end of the
\* loop every scheduled feature has been reduced.
C4_IssueOrder ==
  PipeOn =>
    /\ \A k \in 1..Len(pipe.reduced) : pipe.reduced[k] = k - 1
    /\ pipe.pc = "done" => Len(pipe.reduced) = pipe.take

\* The loop is about to reduce feature j while a slot already holds the finished
\* pass of a feature scheduled later
C4_Witness ==
  /\ PipeOn
  /\ pipe.pc = "reduce"
  /\ pipe.j >= 1
  /\ \E c \in DOMAIN pipe.held : pipe.held[c] > pipe.j

\* C5: a pass is issued on a slot only when every pass issued on that slot before
\* has run on the stream and has had its result reduced.
C5_SlotFree ==
  [][PipeOn =>
       \A c \in DOMAIN pipe.queue :
         Len(pipe'.queue[c]) > Len(pipe.queue[c]) =>
           pipe.queue[c] = <<>> /\ pipe.unreduced[c] = {}]_vars

\* A slot is issued a second feature: a place beyond the pipeline depth was issued
C5_Witness ==
  /\ PipeOn
  /\ \E k \in 1..Len(pipe.issued) : pipe.issued[k] >= pipe.overlap_depth
  /\ pipe.overlap_depth >= 2

IssuedSet == {pipe.issued[k] : k \in 1..Len(pipe.issued)}
ReducedSet == {pipe.reduced[k] : k \in 1..Len(pipe.reduced)}

\* C27: within a level, for every overlap depth and every take, each place
\* 0..take-1 of the sampled order is issued once, on slot place % overlap_depth, and
\* reduced once; a place is reduced only after it was issued and its slot's stream
\* was synchronized (the stream has run the pass and the slot's host mirror holds
\* its result); no place from take on is issued.
C27_ExactlyOnce ==
  PipeOn =>
    /\ \A k, l \in 1..Len(pipe.issued) : pipe.issued[k] = pipe.issued[l] => k = l
    /\ \A k, l \in 1..Len(pipe.reduced) : pipe.reduced[k] = pipe.reduced[l] => k = l
    /\ IssuedSet \subseteq 0..(pipe.take - 1)
    /\ ReducedSet \subseteq IssuedSet
    /\ \A c \in Slots :
         /\ \A p \in pipe.unreduced[c] : p % pipe.overlap_depth = c
         /\ \A k \in 1..Len(pipe.queue[c]) :
              /\ pipe.queue[c][k] % pipe.overlap_depth = c
              /\ pipe.queue[c][k] \in IssuedSet \ ReducedSet
    /\ pipe.pc = "reduce" =>
         /\ pipe.j \in IssuedSet \ ReducedSet
         /\ pipe.queue[pipe.j % pipe.overlap_depth] = <<>>
         /\ pipe.held[pipe.j % pipe.overlap_depth] = pipe.j
    /\ pipe.pc = "done" =>
         IssuedSet = 0..(pipe.take - 1) /\ ReducedSet = 0..(pipe.take - 1)

\* The loop has ended for more features than slots, with two slots or more
C27_Witness ==
  /\ PipeOn /\ pipe.pc = "done"
  /\ pipe.overlap_depth >= 2 /\ pipe.take > pipe.overlap_depth
  /\ Len(pipe.issued) = pipe.take /\ Len(pipe.reduced) = pipe.take

----------------------------------------------------------------------------
(* Properties of the level loop, under Spec *)

Leaves(b) == 0..(Pow2(b.level) - 1)

\* The prefix arrays are built: from the feature loop to the end of the level
PrefixBuilt(b) == b.pc \in {"features", "UpdateTree", "UpdateNodeIndex"}

C9_StrictlyMonotone ==
  \A r \in Builders :
    LET b == run[r] IN
    PrefixBuilt(b) =>
      \A k \in Leaves(b) : b.parent_node_count_h[k] < b.parent_node_count_h[k + 1]

\* C9: at every level parent_count increases from k to k + 1 for a leaf k whose
\* count is between 1 and the number of rows, and stays equal for a leaf whose count
\* is 0 (the right child of a degenerately split leaf has count 0).
C9_Monotone ==
  \A r \in Builders :
    LET b == run[r] IN
    PrefixBuilt(b) =>
      \A k \in Leaves(b) :
        /\ (b._nodeStat[k].count = 0)
             => (b.parent_node_count_h[k] = b.parent_node_count_h[k + 1])
        /\ (1 <= b._nodeStat[k].count /\ b._nodeStat[k].count <= dm.rows)
             => (b.parent_node_count_h[k] < b.parent_node_count_h[k + 1])

\* Level 1 after a degenerate split at level 0: the right leaf has no row
C9_Witness ==
  \E r \in Builders :
    /\ run[r].pc = "features" /\ run[r].level = 1
    /\ run[r]._nodeStat[0].count = dm.rows
    /\ run[r]._nodeStat[1].count = 0
    /\ run[r].parent_node_count_h[1] = run[r].parent_node_count_h[2]

\* UpdateNodeStat has run for the level
StatsUpdated(b) == b.pc \in {"FindBestSplits", "features", "UpdateTree", "UpdateNodeIndex"}

\* C10: once UpdateNodeStat has run for a level, the counts of the level's leaves
\* add up to the number of rows and their gradient sums to the sum of all gradients.
C10_Conservation ==
  \A r \in Builders :
    LET b == run[r] IN
    StatsUpdated(b) =>
      /\ SumOver([k \in Leaves(b) |-> b._nodeStat[k].count], Leaves(b)) = dm.rows
      /\ SumOver([k \in Leaves(b) |-> b._nodeStat[k].sum_grad], Leaves(b))
           = SumOver(grad, 0..(dm.rows - 1))

\* UpdateNodeStat has propagated the splits of level 1: a chosen split of leaf 0,
\* with rows on both sides, and a degenerate split of leaf 1
C10_Witness ==
  \E r \in Builders :
    /\ run[r].pc = "FindBestSplits" /\ run[r].level = 2
    /\ run[r]._nodeStat[0].count > 0 /\ run[r]._nodeStat[1].count > 0
    /\ run[r]._nodeStat[2].count > 0 /\ run[r]._nodeStat[3].count = 0
    /\ run[r]._nodeStat[0].sum_grad # 0

----------------------------------------------------------------------------
(* The best split of a leaf, from the rows of the leaf *)

\* The rows of leaf k
LeafRows(b, k) == {r \in Rows(dm.rows) : b._rowIndex2Node[r] = k}

GradSum(R) == SumOver([r \in Rows(dm.rows) |-> IF r \in R THEN grad[r] ELSE 0], Rows(dm.rows))

\* The candidate that puts the rows `left` of the rows `all` of a leaf on the left
Candidate(left, all) ==
  [gain |-> gain_func(GradSum(left), GradSum(all), Cardinality(left), Cardinality(all),
                      param),
   count |-> Cardinality(left),
   sum_grad |-> GradSum(left)]

\* The features sampled at the level
SampledFids(b) == {b.active_fids[p] : p \in 0..(TakeByLevel(dm.columns) - 1)}

\* The candidates of leaf k: for a dense feature a threshold before every distinct
\* value the leaf's rows take (the sort positions whose value differs from the
\* predecessor's), for a sparse feature the rows where it is true
Candidates(b, k) ==
  LET all == LeafRows(b, k) IN
  {Candidate({r \in all : dm.data[f][r] < dm.data[f][q]}, all) :
     f \in {g \in SampledFids(b) : g < dm.columns_dense}, q \in all}
  \cup
  {Candidate({r \in all : f \in dm.lil_row[r]}, all) :
     f \in {g \in SampledFids(b) : g >= dm.columns_dense}}

\* C1 as stated: after FindBestSplits, for every leaf of the level with a candidate
\* of gain > 0, the recorded split has the largest gain of the leaf's candidates, and
\* its count and sum_grad are those of the left side of a candidate of that gain.
C1_BestSplit ==
  \A r \in Builders :
    LET b == run[r] IN
    b.pc = "UpdateTree" =>
      \A k \in Leaves(b) :
        LET C == Candidates(b, k) IN
        (\E c \in C : c.gain > 0) =>
          \E c \in C :
            /\ \A d \in C : d.gain <= c.gain
            /\ b._bestSplit[k].gain = c.gain
            /\ b._bestSplit[k].count = c.count
            /\ b._bestSplit[k].sum_grad = c.sum_grad

----------------------------------------------------------------------------
(* Properties of two builders on the same inputs and seed, under SpecPair *)

Paired == Builders = {1, 2}

\* The best splits the two builders recorded for the leaves of the level are the same
SameBestSplits ==
  \A k \in Leaves(run[1]) : run[1]._bestSplit[k] = run[2]._bestSplit[k]

NoGainTie == ~run[1].tie /\ ~run[2].tie

\* C6 as stated, for the runs in which no gain kernel met two equal largest gains
\* (there the result does not depend on the order of the atomic updates): at every
\* level the builder of overlap depth 1 and the builder of overlap depth 1, 2 or 4
\* record the same best split for every leaf, and they end with the same tree.
C6_PipelineInvariance ==
  (Paired /\ NoGainTie) =>
    /\ run[1].pc = "UpdateTree" => SameBestSplits
    /\ run[1].pc = "done" => run[1].tree = run[2].tree

\* C7 as stated: two builders of overlap depth 1 on identical inputs and seed record
\* the same best splits at every level and end with the same tree, whatever the
\* order of the atomic updates in the gain kernels.
C7_Determinism ==
  (Paired /\ run[2].overlap_depth = 1) =>
    /\ run[1].pc = "UpdateTree" => SameBestSplits
    /\ run[1].pc = "done" => run[1].tree = run[2].tree

----------------------------------------------------------------------------
(* Properties of the recorded splits, under Spec *)

\* The split recorded for leaf k is a chosen split on a dense feature
ChosenDense(b, k) == b._bestSplit[k].gain > 0 /\ b._bestSplit[k].fid < dm.columns_dense

\* The values feature f takes on the rows of leaf k
LeafValues(b, f, k) == {dm.data[f][r] : r \in LeafRows(b, k)}

\* C11 as stated: when FindBestSplits has returned, the split_value of a leaf with a
\* chosen dense split lies strictly between two distinct values that the feature
\* takes on rows of that leaf and that are consecutive among the leaf's values.
C11_SplitBetween ==
  \A r \in Builders :
    LET b == run[r] IN
    b.pc = "UpdateTree" =>
      \A k \in Leaves(b) :
        ChosenDense(b, k) =>
          LET V == LeafValues(b, b._bestSplit[k].fid, k) IN
          \E lo, hi \in V :
            /\ lo < hi
            /\ \A v \in V : v <= lo \/ v >= hi
            /\ lo < b._bestSplit[k].split_value
            /\ b._bestSplit[k].split_value < hi

\* Feature f is dense and takes one value on the rows of leaf k
ConstantOnLeaf(b, f, k) == f < dm.columns_dense /\ Cardinality(LeafValues(b, f, k)) <= 1

\* C13 as stated: after the pass of a dense feature that is constant on a leaf, the
\* leaf's result cell of that pass is still zero, and when FindBestSplits has returned
\* no leaf has a chosen split on a feature that is constant on it.
C13_ConstantFeature ==
  \A r \in Builders :
    LET b == run[r] IN
    /\ (b.pc = "features" /\ b.j >= 1) =>
         LET f == b.active_fids[b.j - 1]
             sl == b.slots[ConsumeSlot(b.j - 1, b.overlap_depth)]
         IN \A k \in Leaves(b) : ConstantOnLeaf(b, f, k) => sl.results_h[k] = ZeroCell
    /\ b.pc = "UpdateTree" =>
         \A k \in Leaves(b) :
           ChosenDense(b, k) => ~ConstantOnLeaf(b, b._bestSplit[k].fid, k)

\* C14: when FindBestSplits returns, every leaf of the level has a record with
\* fid >= 0; a leaf for which no feature was accepted (its record still had fid < 0
\* after the feature loop) holds fid = 0, gain = 0, split_value = +infinity and the
\* count and sum_grad of its _nodeStat; every other leaf keeps its record, of gain > 0.
C14_DegenerateFill ==
  [][\A r \in Builders :
       (run[r].pc = "features" /\ run'[r].pc = "UpdateTree") =>
         \A k \in Leaves(run[r]) :
           LET old == run[r]._bestSplit[k]
               new == run'[r]._bestSplit[k]
           IN /\ new.fid >= 0
              /\ IF old.fid < 0
                 THEN /\ new.fid = 0 /\ new.gain = 0 /\ new.split_value = PosInf
                      /\ new.count = run[r]._nodeStat[k].count
                      /\ new.sum_grad = run[r]._nodeStat[k].sum_grad
                 ELSE new = old /\ new.gain > 0]_vars

\* FindBestSplits has returned at level 1 with a chosen split for leaf 0 and the
\* degenerate split for leaf 1, which has rows
C14_Witness ==
  \E r \in Builders :
    /\ run[r].pc = "UpdateTree" /\ run[r].level = 1
    /\ run[r]._bestSplit[0].gain > 0
    /\ run[r]._bestSplit[1].gain = 0 /\ run[r]._bestSplit[1].fid = 0
    /\ run[r]._bestSplit[1].count > 0 /\ run[r]._bestSplit[1].sum_grad # 0

\* C15 as stated: UpdateNodeIndex maps every row of a leaf whose split is degenerate
\* (gain 0) to the leaf's left child, whatever the numbers of dense and sparse columns.
C15_DegenerateLeft ==
  [][\A r \in Builders :
       (run[r].pc = "UpdateNodeIndex" /\ run'[r].pc # "UpdateNodeIndex") =>
         \A i \in Rows(dm.rows) :
           LET k == run[r]._rowIndex2Node[i] IN
           run[r]._bestSplit[k].gain = 0 =>
             run'[r]._rowIndex2Node[i] = ChildSlot(k, run[r].level, TRUE)]_vars

\* The rows of leaf k that UpdateNodeIndex sends to the left child
LeftRows(b, k) == {i \in LeafRows(b, k) : IsLeft(b, i)}

\* The guard of gain_func fails for a candidate of a leaf of `total` rows
GuardFails(c, total) ==
  c.count < param.min_leaf_size \/ total - c.count < param.min_leaf_size

\* C19: when FindBestSplits has returned, (a) every candidate of a leaf with fewer
\* than min_leaf_size rows on a side has the gain 0 from gain_func, (b) every leaf
\* with a chosen split (gain > 0) has at least min_leaf_size of its rows on each side
\* of the split, and (c) a leaf none of whose candidates passes the guard holds the
\* degenerate split.
C19_MinLeafGuard ==
  \A r \in Builders :
    LET b == run[r] IN
    b.pc = "UpdateTree" =>
      \A k \in Leaves(b) :
        LET all == LeafRows(b, k)
            C == Candidates(b, k)
        IN /\ \A c \in C : GuardFails(c, Cardinality(all)) => c.gain = 0
           /\ b._bestSplit[k].gain > 0 =>
                /\ Cardinality(LeftRows(b, k)) >= param.min_leaf_size
                /\ Cardinality(all \ LeftRows(b, k)) >= param.min_leaf_size
           /\ (\A c \in C : GuardFails(c, Cardinality(all))) =>
                /\ b._bestSplit[k].gain = 0 /\ b._bestSplit[k].fid = 0
                /\ b._bestSplit[k].split_value = PosInf

\* C20 as stated: after the pass of a feature, grad_sorted[i] is the device gradient
\* of row position_sorted[i] for every sort position i below n, where n is the number
\* of rows for a dense feature and the feature's size for a sparse one.
C20_GatherPermutes ==
  \A r \in Builders :
    LET b == run[r] IN
    (b.pc = "features" /\ b.j >= 1) =>
      LET f == b.active_fids[b.j - 1]
          sl == b.slots[ConsumeSlot(b.j - 1, b.overlap_depth)]
          n == IF f < dm.columns_dense THEN dm.rows
               ELSE Size(dm.lil_column[f - dm.columns_dense])
      IN \A i \in 0..(n - 1) : sl.grad_sorted[i] = b.grad_d[sl.position_sorted[i]]

\* The slot of the pass that the feature loop consumed last, and its feature
ConsumedSlot(b) == b.slots[ConsumeSlot(b.j - 1, b.overlap_depth)]
ConsumedFid(b) == b.active_fids[b.j - 1]

\* The rows of leaf k at the sort positions before i of slot sl
SortedBefore(b, sl, k, i) ==
  {sl.position_sorted[x] : x \in 0..(i - 1)} \cap LeafRows(b, k)

\* C22 as stated: after a dense pass, for every sort position i, of a row of leaf k,
\* sum[i] - parent_sum[k] is the gradient sum and i - parent_count[k] the number of
\* the rows of leaf k sorted before i (so at the first position of segment k the
\* scan equals parent_sum[k] and the position equals parent_count[k]).
C22_SegmentedScan ==
  \A r \in Builders :
    LET b == run[r] IN
    (b.pc = "features" /\ b.j >= 1 /\ ConsumedFid(b) < dm.columns_dense) =>
      LET sl == ConsumedSlot(b) IN
      \A i \in 0..(dm.rows - 1) :
        LET k == b._rowIndex2Node[sl.position_sorted[i]] IN
        /\ sl.sum[i] - b.parent_node_sum[k] = GradSum(SortedBefore(b, sl, k, i))
        /\ i - b.parent_node_count[k] = Cardinality(SortedBefore(b, sl, k, i))

\* The rows of leaf k on which feature f (a sparse one) is true
TrueRows(b, f, k) == {r \in LeafRows(b, k) : f \in dm.lil_row[r]}

\* C23 as stated: after the pass of a sparse feature and its reduction, for every
\* leaf with a nonzero sparse count sum[leaf] is the gradient sum of the rows of the
\* leaf on which the feature is true, and a record accepted for the feature has the
\* number of those rows as count and that sum as sum_grad.
C23_SparseSum ==
  \A r \in Builders :
    LET b == run[r] IN
    (b.pc = "features" /\ b.j >= 1 /\ ConsumedFid(b) >= dm.columns_dense) =>
      LET sl == ConsumedSlot(b)
          f == ConsumedFid(b)
      IN \A k \in Leaves(b) :
           /\ b.sparse_stat[f - dm.columns_dense][k] # 0 =>
                sl.sum[k] = GradSum(TrueRows(b, f, k))
           /\ (b._bestSplit[k].fid = f /\ b._bestSplit[k].split_by_true) =>
                /\ b._bestSplit[k].count = Cardinality(TrueRows(b, f, k))
                /\ b._bestSplit[k].sum_grad = GradSum(TrueRows(b, f, k))

\* The gain the feature consumed last brought for leaf k: the gain of the leaf's
\* result cell for a dense feature, the value of gain_func for a sparse one
ConsumedGain(b, k) ==
  LET f == ConsumedFid(b)
      sl == ConsumedSlot(b)
  IN IF f < dm.columns_dense THEN sl.results_h[k].gain
     ELSE gain_func(sl.sum[k], b._nodeStat[k].sum_grad,
                    b.sparse_stat[f - dm.columns_dense][k], b._nodeStat[k].count, param)

\* C24: when the feature loop consumes a feature, the record of a leaf is replaced
\* only if the feature's gain is strictly greater than the recorded gain, and then
\* by that gain and feature; so within a level the recorded gain never decreases and
\* a feature whose gain equals the recorded one leaves the earlier feature recorded.
C24_StrictReduction ==
  [][\A r \in Builders :
       (run[r].pc = "features" /\ run'[r].pc = "features") =>
         \A k \in DOMAIN run[r]._bestSplit :
           LET old == run[r]._bestSplit[k]
               new == run'[r]._bestSplit[k]
           IN /\ new.gain >= old.gain
              /\ new # old =>
                   /\ k \in Leaves(run[r])
                   /\ ConsumedGain(run'[r], k) > old.gain
                   /\ new.gain = ConsumedGain(run'[r], k)
                   /\ new.fid = ConsumedFid(run'[r])]_vars

\* The feature consumed last has, for a leaf, the gain that is recorded for an
\* earlier feature
C24_Witness ==
  \E r \in Builders :
    /\ run[r].pc = "features" /\ run[r].j >= 2
    /\ \E k \in Leaves(run[r]) :
         /\ run[r]._bestSplit[k].gain > 0
         /\ run[r]._bestSplit[k].fid # ConsumedFid(run[r])
         /\ ConsumedGain(run[r], k) = run[r]._bestSplit[k].gain

\* C29 as stated: after a dense pass, with -infinity at fvalue[0], the test
\* fvalue[i + 1] != fvalue[i] of the gain kernel fails at sort position 0, so that
\* the gain function is not evaluated there and no result cell holds an update that
\* was issued for position 0.
C29_PositionZeroSkipped ==
  \A r \in Builders :
    LET b == run[r] IN
    (b.pc = "features" /\ b.j >= 1 /\ ConsumedFid(b) < dm.columns_dense) =>
      LET sl == ConsumedSlot(b) IN
      /\ sl.fvalue[0] = NegInf
      /\ ~(sl.fvalue[1] # sl.fvalue[0])
      /\ \A k \in Leaves(b) : ~(sl.results_h[k].gain > 0 /\ sl.results_h[k].index = 0)

\* C29, amended: after a dense pass fvalue[0] is still -infinity and the test
\* fvalue[i + 1] != fvalue[i] of the gain kernel holds at sort position 0, so the gain
\* function is evaluated there; when position 0 is a row of leaf 0 its left side is
\* empty and no update of position 0 reaches the leaf's result cell.
C29_PositionZeroEvaluated ==
  \A r \in Builders :
    LET b == run[r] IN
    (b.pc = "features" /\ b.j >= 1 /\ ConsumedFid(b) < dm.columns_dense) =>
      LET sl == ConsumedSlot(b) IN
      /\ sl.fvalue[0] = NegInf
      /\ sl.fvalue[1] # sl.fvalue[0]
      /\ sl.segments_sorted[0] = 0 =>
           ~(sl.results_h[0].gain > 0 /\ sl.results_h[0].index = 0)

\* A dense pass at level 1 whose sort position 0 is a row of leaf 0, with an update
\* of a later position in the leaf's result cell
C29_Witness ==
  \E r \in Builders :
    /\ run[r].pc = "features" /\ run[r].j >= 1 /\ run[r].level = 1
    /\ ConsumedFid(run[r]) < dm.columns_dense
    /\ ConsumedSlot(run[r]).segments_sorted[0] = 0
    /\ ConsumedSlot(run[r]).results_h[0].gain > 0
    /\ ConsumedSlot(run[r]).results_h[0].index > 0

\* C30 as stated: when UpdateNodeStat has run for a level, for every leaf k of the
\* level _nodeStat[k].count is the number of rows r with _rowIndex2Node[r] = k and
\* _nodeStat[k].sum_grad is the gradient sum of those rows.
C30_StatsAgreeWithRows ==
  \A r \in Builders :
    LET b == run[r] IN
    b.pc = "FindBestSplits" =>
      \A k \in Leaves(b) :
        /\ b._nodeStat[k].count = Cardinality(LeafRows(b, k))
        /\ b._nodeStat[k].sum_grad = GradSum(LeafRows(b, k))

\* C32 as stated: in every leaf's split record when FindBestSplits has returned, and
\* in the tree node UpdateTree writes from it, split_by_true is true exactly when
\* the recorded fid is the id of a sparse feature (fid >= columns_dense).
C32_SplitByTrueIffSparse ==
  \A r \in Builders :
    LET b == run[r] IN
    /\ b.pc = "UpdateTree" =>
         \A k \in Leaves(b) :
           b._bestSplit[k].split_by_true <=> (b._bestSplit[k].fid >= dm.columns_dense)
    /\ b.pc = "UpdateNodeIndex" =>
         \A k \in Leaves(b) :
           LET node == b.tree[k + HeapOffset(b.level)] IN
           node.split_by_true <=> (node.fid >= dm.columns_dense)

\* The per-tree state of a builder that InitGrowingTree and the levels write
TreeState(b) ==
  <<b.active_fids, b.sparse_stat, b._rowIndex2Node, b._nodeStat, b._bestSplit,
    b.level, b.tree, b._trees>>

\* C17: GrowTree ends with the "too small" sampling error exactly when
\* floor(colsample_bytree * columns) or floor(colsample_bytree * colsample_bylevel *
\* columns) is 0; the builder then has active_fids, _rowIndex2Node, _nodeStat and
\* _bestSplit as they were before the call, no level was processed and no tree is
\* appended.
C17_SamplingError ==
  \A r \in Builders :
    LET b == run[r] IN
    /\ b.pc # "GrowTree" =>
         ((b.pc = "too small")
            <=> (TakeByTree(dm.columns) = 0 \/ TakeByLevel(dm.columns) = 0))
    /\ b.pc = "too small" =>
         /\ TreeState(b) = TreeState(Builder(b.overlap_depth))
         /\ b._trees = 0

\* GrowTree has ended with the sampling error for a matrix with rows and a column
C17_Witness ==
  \E r \in Builders :
    /\ run[r].pc = "too small"
    /\ run[r].grad_d = grad
    /\ TakeByTree(dm.columns) # 0 /\ TakeByLevel(dm.columns) = 0

----------------------------------------------------------------------------
(* SpecGain: gain_func in floating point.  A float is kept as the integer     *)
(* FloatOne * value; every result is rounded to MantissaBits significant bits, *)
(* to nearest, ties to even (binary32 has 24 such bits, binary64 has 53).      *)

MantissaBits == 3   \* significant bits of a float
FracBits == 2       \* the smallest positive float is 2^-FracBits
MaxFloat == 7       \* the sums of a call are in -MaxFloat..MaxFloat (times 2^-FracBits)
MaxCount == 3       \* the counts of a call are in 0..MaxCount

FloatOne == Pow2(FracBits)
NaN == 2 * PosInf

RECURSIVE BitLen(_)
BitLen(n) == IF n = 0 THEN 0 ELSE 1 + BitLen(n \div 2)

Abs(x) == IF x < 0 THEN 0 - x ELSE x

\* The float nearest to num / den (den > 0), in units of 2^-FracBits
RoundNear(num, den) ==
  LET a == Abs(num)
      bits == BitLen(a \div den)
      u == IF bits <= MantissaBits THEN 1 ELSE Pow2(bits - MantissaBits)
      k == a \div (den * u)
      twice == 2 * (a - k * den * u)
      m == IF twice < den * u THEN k
           ELSE IF twice > den * u THEN k + 1
           ELSE IF k % 2 = 0 THEN k ELSE k + 1
  IN IF num < 0 THEN 0 - (m * u) ELSE m * u

IsFinite(x) == x # NaN /\ x # PosInf /\ x # NegInf

\* (float) of a size_t
ToFloat(n) == RoundNear(n * FloatOne, 1)

FNeg(a) == IF a = NaN THEN NaN ELSE 0 - a

FAdd(a, b) ==
  IF a = NaN \/ b = NaN THEN NaN
  ELSE IF ~IsFinite(a) THEN (IF b = FNeg(a) THEN NaN ELSE a)
  ELSE IF ~IsFinite(b) THEN b
  ELSE RoundNear(a + b, 1)

FSub(a, b) == FAdd(a, FNeg(b))

FMul(a, b) ==
  IF a = NaN \/ b = NaN THEN NaN
  ELSE IF ~IsFinite(a) \/ ~IsFinite(b)
  THEN (IF a = 0 \/ b = 0 THEN NaN ELSE IF (a < 0) = (b < 0) THEN PosInf ELSE NegInf)
  ELSE RoundNear(a * b, FloatOne)

FDiv(a, b) ==
  IF a = NaN \/ b = NaN THEN NaN
  ELSE IF ~IsFinite(a)
  THEN (IF ~IsFinite(b) THEN NaN ELSE IF (a < 0) = (b < 0) THEN PosInf ELSE NegInf)
  ELSE IF ~IsFinite(b) THEN 0
  ELSE IF b = 0 THEN (IF a = 0 THEN NaN ELSE IF a < 0 THEN NegInf ELSE PosInf)
  ELSE IF b < 0 THEN RoundNear(0 - (a * FloatOne), 0 - b)
  ELSE RoundNear(a * FloatOne, b)

\* a >= b on floats: false when either is a NaN
FGeq(a, b) == a # NaN /\ b # NaN /\ a >= b

\* Faulty variant of gain_func_float: the right term divided by the left count
gain_func_left(left_sum, total_sum, left_count, total_count, params) ==
  LET lc == left_count % SizeMod
      tc == total_count % SizeMod
      right_count == SizeSub(tc, lc)
  IN IF lc >= params.min_leaf_size /\ right_count >= params.min_leaf_size
     THEN LET right_sum == FSub(total_sum, left_sum)
              l == FDiv(FMul(left_sum, left_sum), FAdd(ToFloat(lc), params.lambda))
              r == FDiv(FMul(right_sum, right_sum), FAdd(ToFloat(lc), params.lambda))
              p == FDiv(FMul(total_sum, total_sum), FAdd(ToFloat(tc), params.lambda))
          IN FSub(FAdd(l, r), p)
     ELSE 0

\* gain_func on float (and, with more bits, double) sums: every operation rounds
gain_func_float(left_sum, total_sum, left_count, total_count, params) ==
  LET lc == left_count % SizeMod
      tc == total_count % SizeMod
      right_count == SizeSub(tc, lc)
  IN IF lc >= params.min_leaf_size /\ right_count >= params.min_leaf_size
     THEN LET right_sum == FSub(total_sum, left_sum)
              l == FDiv(FMul(left_sum, left_sum), FAdd(ToFloat(lc), params.lambda))
              r == FDiv(FMul(right_sum, right_sum), FAdd(ToFloat(right_count), params.lambda))
              p == FDiv(FMul(total_sum, total_sum), FAdd(ToFloat(tc), params.lambda))
          IN FSub(FAdd(l, r), p)
     ELSE 0

\* total_sum - left_sum on float2 (double2): x is the gradient sum, y the hessian sum
Sub2(a, b) == [x |-> FSub(a.x, b.x), y |-> FSub(a.y, b.y)]

\* gain_func on float2 (double2) sums
gain_func_float2(left_sum, total_sum, left_count, total_count, params) ==
  LET lc == left_count % SizeMod
      tc == total_count % SizeMod
      right_sum == Sub2(total_sum, left_sum)
  IN IF /\ lc >= params.min_leaf_size
        /\ SizeSub(tc, lc) >= params.min_leaf_size
        /\ FGeq(Abs(left_sum.y), params.hess)
        /\ FGeq(Abs(right_sum.y), params.hess)
     THEN LET l == FDiv(FMul(left_sum.x, left_sum.x), FAdd(left_sum.y, params.lambda))
              r == FDiv(FMul(right_sum.x, right_sum.x), FAdd(right_sum.y, params.lambda))
              p == FDiv(FMul(total_sum.x, total_sum.x), FAdd(total_sum.y, params.lambda))
          IN FSub(FAdd(l, r), p)
     ELSE 0

\* The floats of the calls
Floats == {n \in (0 - MaxFloat)..MaxFloat : RoundNear(n, 1) = n}
HessFloats == {0, FloatOne, MaxFloat}

GainParams(hess) ==
  [min_leaf_size : 0..MaxMinLeaf, lambda : {0, FloatOne}, hess : hess]

\* A call of gain_func on scalar sums, or on (gradient, hessian) sums
InitGain ==
  /\ \/ \E l, t \in Floats, lc, tc \in 0..MaxCount, ps \in GainParams({0}) :
          unit = [pc |-> "call", variant |-> "float", left_sum |-> l, total_sum |-> t,
                  left_count |-> lc, total_count |-> tc, params |-> ps,
                  gain |-> 0, mirror |-> 0]
     \/ \E l, t \in [x : Floats, y : HessFloats], lc, tc \in 0..1,
           ps \in GainParams({0, FloatOne}) :
          unit = [pc |-> "call", variant |-> "float2", left_sum |-> l, total_sum |-> t,
                  left_count |-> lc, total_count |-> tc, params |-> ps,
                  gain |-> 0, mirror |-> 0]
  /\ dm = <<>> /\ grad = <<>> /\ param = <<>> /\ run = <<>>
  /\ AtomicOff /\ PipeOff

\* The call, and the call with left and right exchanged: the left sum is
\* total_sum - left_sum, the left count total_count - left_count
GainCall ==
  /\ unit.pc = "call"
  /\ LET u == unit
         other == SizeSub(u.total_count, u.left_count)
     IN unit' =
          IF u.variant = "float"
          THEN [u EXCEPT
                  !.pc = "done",
                  !.gain = gain_func_float(u.left_sum, u.total_sum, u.left_count,
                                           u.total_count, u.params),
                  !.mirror = gain_func_float(FSub(u.total_sum, u.left_sum), u.total_sum,
                                             other, u.total_count, u.params)]
          ELSE [u EXCEPT
                  !.pc = "done",
                  !.gain = gain_func_float2(u.left_sum, u.total_sum, u.left_count,
                                            u.total_count, u.params),
                  !.mirror = gain_func_float2(Sub2(u.total_sum, u.left_sum), u.total_sum,
                                              other, u.total_count, u.params)]
  /\ UNCHANGED <<dm, grad, param, run, cell, thr, pipe>>

SpecGain == InitGain /\ [][GainCall]_vars

GainDone == unit.pc = "done"

\* total_sum - (total_sum - left_sum) gives left_sum back
RoundTrips ==
  IF unit.variant = "float"
  THEN FSub(unit.total_sum, FSub(unit.total_sum, unit.left_sum)) = unit.left_sum
  ELSE Sub2(unit.total_sum, Sub2(unit.total_sum, unit.left_sum)) = unit.left_sum

\* C12 as stated: the gain of a call equals the gain of the call with left and right
\* exchanged, for every total and left (count, sum), in both variants.
C12_Symmetric == GainDone => unit.gain = unit.mirror

\* C12: the gain of a call equals the gain of the call with left and right exchanged
\* whenever the subtraction total_sum - left_sum loses nothing, that is
\* total_sum - (total_sum - left_sum) is left_sum again (as it is in exact arithmetic).
C12_SymmetricExact == (GainDone /\ RoundTrips) => unit.gain = unit.mirror

\* A call with unequal sides whose subtraction is exact and whose gain is above 0
C12_Witness ==
  /\ GainDone /\ RoundTrips
  /\ unit.gain > 0 /\ IsFinite(unit.gain)
  /\ 2 * unit.left_count # unit.total_count
  /\ unit.left_count < unit.total_count

----------------------------------------------------------------------------
(* SpecGarden: the calls of Garden::GrowTree.  The first call picks the builder *)
(* by the depth, the objective and the precision; every call grows a tree per   *)
(* label, and the growth is kept to its outcome: the tree, or the sampling      *)
(* error of InitGrowingTree.                                                    *)

MaxDepthArg == 66   \* param.depth is in 1..MaxDepthArg
MaxCalls == 2       \* calls of Garden::GrowTree
MaxLabels == 2      \* param.labels_count is in 1..MaxLabels

CHAR_BIT == 8

\* sizeof, where unsigned long int has 64 bits (LP64)
Sizeof(type) ==
  CASE type = "unsigned char" -> 1
    [] type = "unsigned short" -> 2
    [] type = "unsigned int" -> 4
    [] type = "unsigned long int" -> 8

Objectives == {"LinearRegression", "LogisticRegression", "SoftMaxOneVsAll"}

\* Faulty variant of NodeType: the widest node type is left out
NodeTypeNarrow(depth) ==
  IF depth + 1 <= Sizeof("unsigned char") * CHAR_BIT THEN "unsigned char"
  ELSE IF depth + 1 <= Sizeof("unsigned short") * CHAR_BIT THEN "unsigned short"
  ELSE IF depth + 1 <= Sizeof("unsigned int") * CHAR_BIT THEN "unsigned int"
  ELSE "none"

\* The branch of the if-chain on param.depth + 1 that is taken ("none": the throw)
NodeType(depth) ==
  IF depth + 1 <= Sizeof("unsigned char") * CHAR_BIT THEN "unsigned char"
  ELSE IF depth + 1 <= Sizeof("unsigned short") * CHAR_BIT THEN "unsigned short"
  ELSE IF depth + 1 <= Sizeof("unsigned int") * CHAR_BIT THEN "unsigned int"
  ELSE IF depth + 1 <= Sizeof("unsigned long int") * CHAR_BIT THEN "unsigned long int"
  ELSE "none"

\* The TaylorApproximationBuilder<node_type, grad_type, sum_type> that is constructed
BuilderType(objective, depth, double_precision) ==
  IF objective = "LinearRegression"
  THEN [node_type |-> IF NodeType(depth) = "unsigned long int" /\ ~double_precision
                      THEN "unsigned int" ELSE NodeType(depth),
        grad_type |-> "float",
        sum_type |-> IF double_precision THEN "double" ELSE "float"]
  ELSE [node_type |-> NodeType(depth),
        grad_type |-> "float2",
        sum_type |-> IF double_precision THEN "mydouble2" ELSE "float2"]

NoBuilder == [node_type |-> "none", grad_type |-> "none", sum_type |-> "none"]

InitGarden ==
  /\ \E depth \in 1..MaxDepthArg, objective \in Objectives \cup {"other"},
        double_precision \in BOOLEAN, labels \in 1..MaxLabels :
       unit = [pc |-> "garden", objective |-> objective,
               double_precision |-> double_precision, labels_count |-> labels,
               _init |-> FALSE, _builder |-> NoBuilder, _objective |-> "none",
               _trees |-> 0, calls |-> 0, error |-> "none"]
       /\ \E bytree, bylevel \in {1, 2} :
            param = [depth |-> depth, min_leaf_size |-> 0, lambda |-> 0,
                     colsample_bytree |-> bytree, colsample_bylevel |-> bylevel]
  /\ \E columns \in 1..MaxColumns : dm = [columns |-> columns]
  /\ grad = <<>> /\ run = <<>>
  /\ AtomicOff /\ PipeOff

\* The throw of _builder->GrowTree, if any: InitGrowingTree's sampling checks
GrowError ==
  IF TakeByTree(dm.columns) = 0 THEN "colsample_bytree is too small"
  ELSE IF TakeByLevel(dm.columns) = 0
  THEN "colsample_bytree and colsample_bylevel are too small"
  ELSE "none"

\* The loop over the labels: a tree is appended after _builder->GrowTree returns
GrowLabels(g) ==
  IF GrowError = "none"
  THEN [g EXCEPT !._trees = g._trees + g.labels_count, !.error = "none"]
  ELSE [g EXCEPT !.error = GrowError]

\* Garden::GrowTree(data, grad)
GardenGrowTree ==
  /\ unit.pc = "garden" /\ unit.calls < MaxCalls
  /\ LET g == [unit EXCEPT !.calls = unit.calls + 1] IN
     unit' =
       IF g._init THEN GrowLabels(g)
       ELSE IF g.objective \notin Objectives
       THEN [g EXCEPT !.error = "Unknown objective function"]
       ELSE IF NodeType(param.depth) = "none"
       THEN [g EXCEPT !.error = "unsupported depth"]
       ELSE GrowLabels([g EXCEPT
                          !._builder = BuilderType(g.objective, param.depth,
                                                   g.double_precision),
                          !._objective = g.objective,
                          !._init = TRUE])
  /\ UNCHANGED <<dm, grad, param, run, cell, thr, pipe>>

SpecGarden == InitGarden /\ [][GardenGrowTree]_vars

\* C16: the first call of Garden::GrowTree ends with the error "unsupported depth"
\* exactly when depth + 1 > 64, for each of the three objectives and both precisions;
\* after that error _init is false, there is no builder and no tree was appended.
C16_UnsupportedDepth ==
  (unit.pc = "garden" /\ unit.calls = 1 /\ unit.objective \in Objectives) =>
    /\ (unit.error = "unsupported depth") <=> (param.depth + 1 > 64)
    /\ (unit.error = "unsupported depth") =>
         ~unit._init /\ unit._builder = NoBuilder /\ unit._trees = 0

\* The first call has failed for a depth of 64 or more
C16_Witness ==
  /\ unit.pc = "garden" /\ unit.calls = 1 /\ unit.objective \in Objectives
  /\ unit.error = "unsupported depth" /\ param.depth >= 64

NodeTypes == {"unsigned char", "unsigned short", "unsigned int", "unsigned long int"}

\* C26 as stated: for every objective, both precisions and every depth with
\* depth + 1 <= 64, the node type of the builder that Garden::GrowTree constructs has
\* at least depth + 1 bits and is the smallest of the four unsigned types that has.
C26_SmallestNodeType ==
  (unit.pc = "garden" /\ unit._init) =>
    /\ unit._builder.node_type \in NodeTypes
    /\ Sizeof(unit._builder.node_type) * CHAR_BIT >= param.depth + 1
    /\ \A type \in NodeTypes :
         Sizeof(type) * CHAR_BIT >= param.depth + 1
           => Sizeof(unit._builder.node_type) <= Sizeof(type)

----------------------------------------------------------------------------
(* SpecArena: the scratch buffers temp_bytes of one builder.  The constructor   *)
(* calls AllocateMemoryIfRequire(i, max) for every slot; after it the method is *)
(* called with any slot and any number of bytes.                                *)

MaxSlots == 2      \* overlap_depth is in 1..MaxSlots
MaxBytes == 4      \* a request is for 0..MaxBytes bytes
MaxMallocs == 5    \* calls of cudaMalloc

\* Faulty variant of AllocateMemoryIfRequire: the buffer is made anew for every request
AllocateMemoryAlways(a, circular_fid, bytes) ==
  [a EXCEPT
     !.temp_bytes[circular_fid] = a.mallocs + 1,
     !.temp_bytes_allocated[circular_fid] = bytes,
     !.mallocs = a.mallocs + 1]

\* AllocateMemoryIfRequire(circular_fid, bytes); a buffer is named by the number of
\* the cudaMalloc call that made it, 0 is the pointer as `new void *[]` left it
AllocateMemoryIfRequire(a, circular_fid, bytes) ==
  IF a.temp_bytes_allocated[circular_fid] = 0
  THEN [a EXCEPT
          !.temp_bytes[circular_fid] = a.mallocs + 1,
          !.temp_bytes_allocated[circular_fid] = bytes,
          !.mallocs = a.mallocs + 1]
  ELSE IF a.temp_bytes_allocated[circular_fid] < bytes
  THEN [a EXCEPT   \* cudaFree, then cudaMalloc
          !.temp_bytes[circular_fid] = a.mallocs + 1,
          !.temp_bytes_allocated[circular_fid] = bytes,
          !.mallocs = a.mallocs + 1]
  ELSE a

\* The members after lines 253-268 of the constructor; max is the largest of the
\* sizes of lines 283-317, at least sizeof(float) * rows
InitArena ==
  /\ \E overlap \in 1..MaxSlots, max \in 1..MaxBytes :
       unit = [pc |-> "construct", overlap_depth |-> overlap, max |-> max, i |-> 0,
               temp_bytes |-> Zeros(overlap), temp_bytes_allocated |-> Zeros(overlap),
               mallocs |-> 0, circular_fid |-> 0, bytes |-> 0]
  /\ dm = <<>> /\ grad = <<>> /\ param = <<>> /\ run = <<>>
  /\ AtomicOff /\ PipeOff

\* One turn of the loop of lines 319-321
ArenaConstruct ==
  /\ unit.pc = "construct"
  /\ unit' = [AllocateMemoryIfRequire(unit, unit.i, unit.max) EXCEPT
                !.circular_fid = unit.i,
                !.bytes = unit.max,
                !.i = unit.i + 1,
                !.pc = IF unit.i + 1 < unit.overlap_depth THEN "construct" ELSE "ready"]
  /\ UNCHANGED <<dm, grad, param, run, cell, thr, pipe>>

\* A call of AllocateMemoryIfRequire on the constructed builder
ArenaRequest ==
  /\ unit.pc = "ready" /\ unit.mallocs < MaxMallocs
  /\ \E circular_fid \in 0..(unit.overlap_depth - 1), bytes \in 0..MaxBytes :
       unit' = [AllocateMemoryIfRequire(unit, circular_fid, bytes) EXCEPT
                  !.circular_fid = circular_fid,
                  !.bytes = bytes]
  /\ UNCHANGED <<dm, grad, param, run, cell, thr, pipe>>

NextArena == ArenaConstruct \/ ArenaRequest

SpecArena == InitArena /\ [][NextArena]_vars

\* C18: over the calls of AllocateMemoryIfRequire(slot, bytes) the recorded size of a
\* slot never decreases, after a call it is at least the requested bytes, a call with
\* bytes not above the current size leaves the buffer and its size as they were, and
\* a call for one slot changes no other slot's buffer or size.
C18_MemoryArena ==
  [][LET slot == unit'.circular_fid
         bytes == unit'.bytes
     IN /\ \A s \in DOMAIN unit.temp_bytes_allocated :
             unit'.temp_bytes_allocated[s] >= unit.temp_bytes_allocated[s]
        /\ unit'.temp_bytes_allocated[slot] >= bytes
        /\ bytes <= unit.temp_bytes_allocated[slot] =>
             /\ unit'.temp_bytes[slot] = unit.temp_bytes[slot]
             /\ unit'.temp_bytes_allocated[slot] = unit.temp_bytes_allocated[slot]
        /\ \A s \in DOMAIN unit.temp_bytes_allocated \ {slot} :
             /\ unit'.temp_bytes[s] = unit.temp_bytes[s]
             /\ unit'.temp_bytes_allocated[s] = unit.temp_bytes_allocated[s]]_vars

\* A slot that was grown once is asked for fewer bytes than it has, and another slot
\* has a buffer of its own
C18_Witness ==
  /\ unit.pc = "ready" /\ unit.overlap_depth = 2
  /\ unit.temp_bytes[unit.circular_fid] > unit.overlap_depth
  /\ unit.bytes < unit.temp_bytes_allocated[unit.circular_fid]
  /\ unit.temp_bytes[1 - unit.circular_fid] # 0

----------------------------------------------------------------------------
(* SpecTemp: the threads of one launch of gather_kernel_temp by                 *)
(* ProcessDenceFeature, in blocks of blockSizeGather threads, one access of     *)
(* global memory per step.  The grid has ceil(rows / blockSizeGather) blocks,   *)
(* so every thread has at most one turn of each loop.                           *)

MaxTempRows == 3      \* data->rows is in 1..MaxTempRows
blockSizeGather == 2  \* threads of a block
FeatureValues == {2, 4}

\* gridSizeGather = (data->rows + blockSizeGather - 1) / blockSizeGather
gridSizeGather(rows) == (rows + blockSizeGather - 1) \div blockSizeGather

TempThreads == 0..(gridSizeGather(unit.n) * blockSizeGather - 1)

\* blockIdx.x of thread i
BlockIdx(i) == i \div blockSizeGather

\* The launch: position is position_sorted, a permutation of the rows.  resident
\* tells whether data_device[active_fid] holds the feature; if not, the values
\* were copied to fvalue[1..rows] and the kernel reads and writes that buffer.
InitTemp ==
  /\ \E n \in 1..MaxTempRows :
       \E position \in Perms(n), values \in [0..(n - 1) -> FeatureValues],
          resident \in BOOLEAN :
         unit = [pc |-> "gather_kernel_temp", n |-> n, position |-> position,
                 values |-> values, resident |-> resident,
                 fvalue |-> [i \in 0..n |->
                               IF i = 0 THEN NegInf
                               ELSE IF resident THEN 0 ELSE values[i - 1]],
                 tmp |-> Zeros(n),
                 at |-> [i \in 0..(gridSizeGather(n) * blockSizeGather - 1) |-> "load"]]
  /\ dm = <<>> /\ grad = <<>> /\ param = <<>> /\ run = <<>>
  /\ AtomicOff /\ PipeOff

\* data[index]: data is fvalue_tmp->data() + 1
TempData(index) ==
  IF unit.resident THEN unit.values[index] ELSE unit.fvalue[index + 1]

\* The first loop of thread i: tmp[i] = data[position[i]]
TempLoad(i) ==
  /\ unit.pc = "gather_kernel_temp" /\ unit.at[i] = "load"
  /\ unit' = [unit EXCEPT
                !.tmp = IF i < unit.n
                        THEN [unit.tmp EXCEPT ![i] = TempData(unit.position[i])]
                        ELSE unit.tmp,
                !.at[i] = "__syncthreads"]
  /\ UNCHANGED <<dm, grad, param, run, cell, thr, pipe>>

\* __syncthreads: the threads of the block of thread i have all arrived
TempSync(i) ==
  /\ unit.pc = "gather_kernel_temp" /\ unit.at[i] = "__syncthreads"
  /\ \A j \in TempThreads : BlockIdx(j) = BlockIdx(i) => unit.at[j] # "load"
  /\ unit' = [unit EXCEPT !.at[i] = "store"]
  /\ UNCHANGED <<dm, grad, param, run, cell, thr, pipe>>

\* The second loop of thread i: out[i] = tmp[i]; out is fvalue[circular_fid].data() + 1
TempStore(i) ==
  /\ unit.pc = "gather_kernel_temp" /\ unit.at[i] = "store"
  /\ unit' = [unit EXCEPT
                !.fvalue = IF i < unit.n
                           THEN [unit.fvalue EXCEPT ![i + 1] = unit.tmp[i]]
                           ELSE unit.fvalue,
                !.at[i] = "done"]
  /\ UNCHANGED <<dm, grad, param, run, cell, thr, pipe>>

NextTemp == \E i \in TempThreads : TempLoad(i) \/ TempSync(i) \/ TempStore(i)

SpecTemp == InitTemp /\ [][NextTemp]_vars

\* The kernel has finished
TempDone == unit.pc = "gather_kernel_temp" /\ \A i \in TempThreads : unit.at[i] = "done"

\* C21 as stated: when gather_kernel_temp has finished, fvalue[i + 1] is the feature
\* value of row position_sorted[i] for every i below the number of rows and fvalue[0]
\* is still -infinity, whatever the order of the steps of the thread blocks, for a
\* feature resident on the device and for one uploaded into the slot's fvalue.
C21_FvaluePermuted ==
  TempDone =>
    /\ unit.fvalue[0] = NegInf
    /\ \A i \in 0..(unit.n - 1) : unit.fvalue[i + 1] = unit.values[unit.position[i]]

----------------------------------------------------------------------------
(* SpecReduce: one reduction of a finished pass into _bestSplit, at level 1 (two *)
(* leaves), for the sums a scan or a reduction in floating point can leave:      *)
(* finite ones, infinities and NaN.                                              *)

ReduceRows == 2     \* rows of the matrix: the sort positions of the pass
ReduceGain == 2     \* the gain in a result cell is 0 or ReduceGain * GainScale

ReduceSums == {0 - 1, 0, NegInf, PosInf, NaN}

\* A record an earlier feature of the level left, of a gain below every gain > 0
EarlierSplit ==
  [fid |-> 1, gain |-> 1, split_value |-> 3, split_by_true |-> FALSE,
   count |-> 1, sum_grad |-> 0 - 1]

\* The members the reductions read, after UpdateNodeStat and a pass on slot 0
InitReduce ==
  /\ \E sum \in [0..(ReduceRows - 1) -> ReduceSums],
        index \in [0..1 -> 0..(ReduceRows - 1)],
        gain \in [0..1 -> {0, ReduceGain * GainScale}],
        best \in [0..1 -> {SplitClean, EarlierSplit}],
        stat \in [0..1 -> 0..1] :
       run = [r \in {1} |->
                [pc |-> "reduce", level |-> 1, overlap_depth |-> 1,
                 _bestSplit |-> best,
                 _nodeStat |-> [i \in 0..1 |-> [count |-> 1, sum_grad |-> 0 - 1, gain |-> 0]],
                 parent_node_count_h |-> [i \in 0..2 |-> i],
                 parent_node_sum_h |-> [i \in 0..2 |-> 0 - i],
                 sparse_stat |-> [f \in 0..0 |-> stat],
                 slots |-> [c \in 0..0 |->
                              [results_h |-> [i \in 0..1 |->
                                                [gain |-> gain[i], index |-> index[i]]],
                               sum |-> sum,
                               fvalue |-> [i \in 0..ReduceRows |->
                                             IF i = 0 THEN NegInf ELSE 2 * i]]]]]
  /\ param = [depth |-> 3, min_leaf_size |-> 0, lambda |-> 0,
              colsample_bytree |-> 2, colsample_bylevel |-> 2]
  /\ dm = [columns_dense |-> 1] /\ grad = <<>>
  /\ AtomicOff /\ PipeOff /\ UnitOff

\* The pass was that of dense feature 0
ReduceDense ==
  /\ At("reduce")
  /\ run' = [r \in Builders |->
               [run[r] EXCEPT
                  !._bestSplit = GetBestSplitForDenceFeature(run[r], 0, 0, Pow2(1)),
                  !.pc = "dense"]]
  /\ UNCHANGED <<dm, grad, param, cell, thr, pipe, unit>>

\* The pass was that of sparse feature 0, the feature after the dense ones
ReduceSparse ==
  /\ At("reduce")
  /\ run' = [r \in Builders |->
               [run[r] EXCEPT
                  !._bestSplit = GetBestSplitForSparseFeature(run[r], 0, dm.columns_dense,
                                                              0, Pow2(1)),
                  !.pc = "sparse"]]
  /\ UNCHANGED <<dm, grad, param, cell, thr, pipe, unit>>

NextReduce == ReduceDense \/ ReduceSparse

SpecReduce == InitReduce /\ [][NextReduce]_vars

\* The sum of the candidate of leaf i: sum[argmax_sort_index] after a dense pass,
\* sum[i] after a sparse one
CandidateSum(b, i, dense) ==
  IF dense THEN b.slots[0].sum[b.slots[0].results_h[i].index] ELSE b.slots[0].sum[i]

\* C25: a reduction leaves the record of a leaf whose candidate has a sum that is
\* NaN, +infinity or -infinity exactly as it was, still accepts for the other leaves
\* of the pass a candidate of a larger gain, and ends without an error.
C25_NonFiniteRejected ==
  [][\A r \in Builders :
       run[r].pc = "reduce" =>
         /\ run'[r].pc \in {"dense", "sparse"}
         /\ \A i \in 0..1 :
              LET s == CandidateSum(run[r], i, run'[r].pc = "dense")
                  old == run[r]._bestSplit[i]
                  new == run'[r]._bestSplit[i]
              IN /\ s \in {NegInf, PosInf, NaN} => new = old
                 /\ (/\ s \notin {NegInf, PosInf, NaN}
                     /\ run'[r].pc = "dense"
                     /\ run[r].slots[0].results_h[i].gain > old.gain)
                      => new.gain = run[r].slots[0].results_h[i].gain
                 /\ (/\ s \notin {NegInf, PosInf, NaN}
                     /\ run'[r].pc = "sparse"
                     /\ run[r].sparse_stat[0][i] # 0
                     /\ gain_func(s, run[r]._nodeStat[i].sum_grad, run[r].sparse_stat[0][i],
                                  run[r]._nodeStat[i].count, param) > old.gain)
                      => new.split_by_true /\ new.sum_grad = s]_vars

\* A dense pass was reduced: the candidate of leaf 0 had a gain above the recorded
\* one and an infinite sum, and the candidate of leaf 1 was accepted
C25_Witness ==
  \E r \in Builders :
    /\ run[r].pc = "dense"
    /\ run[r].slots[0].results_h[0].gain > run[r]._bestSplit[0].gain
    /\ CandidateSum(run[r], 0, TRUE) = PosInf
    /\ run[r]._bestSplit[0] = EarlierSplit
    /\ run[r]._bestSplit[1].gain = ReduceGain * GainScale /\ run[r]._bestSplit[1].fid = 0

----------------------------------------------------------------------------
(* SpecStream: the streams over the levels and trees of one builder.  GrowTree     *)
(* queues the copy of the tree's gradients on streams[0]; FindBestSplits queues    *)
(* the copy of the row-to-leaf map on streams[0], synchronizes streams[0] and runs *)
(* the feature loop, whose passes (the kernels that read row2Node and grad_d) are  *)
(* queued on the slots' streams.  A stream runs its queue in order, an operation   *)
(* at a time, at its own pace; different streams run side by side.                  *)

MaxStreamTrees == 2     \* SpecStream: trees grown one after the other
MaxStreamDepth == 3     \* SpecStream: param.depth is in 1..MaxStreamDepth
MaxStreamTake == 3      \* SpecStream: sampled features per level
MaxStreamOverlap == 3   \* SpecStream: overlap_depth is in 1..MaxStreamOverlap

\* No operation: what an idle stream runs
NoOp == [kind |-> "none", tree |-> 0 - 1, level |-> 0 - 1, place |-> 0 - 1]

\* cudaMemcpyAsync(grad_d, objective->grad + label * rows, ..., streams[0])
GradCopy(tree) == [kind |-> "grad", tree |-> tree, level |-> 0 - 1, place |-> 0 - 1]

\* cudaMemcpyAsync(row2Node, _rowIndex2Node, ..., streams[0])
MapCopy(tree, level) == [kind |-> "map", tree |-> tree, level |-> level, place |-> 0 - 1]

\* What ProcessDenceFeature or ProcessSparseFeature queues on stream s for the
\* feature at a place of active_fids: copies, kernels and the copy of the results
Pass(tree, level, place) == [kind |-> "pass", tree |-> tree, level |-> level, place |-> place]

\* Faulty variant of Synchronized: the host does not wait for the stream
SynchronizedNoWait(u, c) == TRUE

\* cudaStreamSynchronize(streams[c]) returns: everything queued on the stream is done
Synchronized(u, c) == u.queue[c] = <<>> /\ u.running[c] = NoOp

InitStream ==
  /\ \E trees \in 1..MaxStreamTrees, depth \in 1..MaxStreamDepth,
        take \in 1..MaxStreamTake, overlap \in 1..MaxStreamOverlap :
       unit = [pc |-> "GrowTree", trees |-> trees, depth |-> depth, take |-> take,
               overlap_depth |-> overlap, tree |-> 0, level |-> 0, j |-> 0, i |-> 0,
               queue |-> [c \in 0..(overlap - 1) |-> <<>>],     \* operations queued on the stream
               running |-> [c \in 0..(overlap - 1) |-> NoOp],   \* the operation the stream runs
               unreduced |-> [c \in 0..(overlap - 1) |-> {}],   \* places issued and not yet reduced
               grad_d |-> 0 - 1,                  \* the tree whose gradients grad_d holds
               row2Node |-> <<0 - 1, 0 - 1>>]     \* the tree and level whose map row2Node holds
  /\ dm = <<>> /\ grad = <<>> /\ param = <<>> /\ run = <<>>
  /\ AtomicOff /\ PipeOff

\* GrowTree up to its loop: the gradients are queued on streams[0], InitGrowingTree
\* works on the host, and the loop runs while (i + 1) < param.depth
StreamGrowTree ==
  /\ unit.pc = "GrowTree"
  /\ unit' = [unit EXCEPT !.queue[0] = Append(@, GradCopy(unit.tree)),
                          !.level = 0,
                          !.pc = IF 1 < unit.depth THEN "FindBestSplits" ELSE "UpdateLeafWeight"]
  /\ UNCHANGED <<dm, grad, param, run, cell, thr, pipe>>

\* FindBestSplits up to cudaStreamSynchronize(streams[0]): the map is queued on
\* streams[0]; the prefix sums are built on the host
StreamFindBestSplits ==
  /\ unit.pc = "FindBestSplits"
  /\ unit' = [unit EXCEPT !.queue[0] = Append(@, MapCopy(unit.tree, unit.level)),
                          !.j = 0, !.i = 0,
                          !.pc = "cudaStreamSynchronize"]
  /\ UNCHANGED <<dm, grad, param, run, cell, thr, pipe>>

\* cudaStreamSynchronize(streams[0]) returns and the feature loop begins
StreamSynchronize0 ==
  /\ unit.pc = "cudaStreamSynchronize"
  /\ Synchronized(unit, 0)
  /\ unit' = [unit EXCEPT !.pc = "issue"]
  /\ UNCHANGED <<dm, grad, param, run, cell, thr, pipe>>

\* The i of the inner loop still to be issued at this iteration
StreamToIssue == {i \in IssueSet(unit.j, unit.take, unit.overlap_depth) : i >= unit.i}

\* The inner loop reaches the next i that is not skipped and queues the pass of the
\* feature at place j + i on its slot's stream
StreamIssue ==
  /\ unit.pc = "issue"
  /\ StreamToIssue # {}
  /\ LET i == CHOOSE x \in StreamToIssue : \A y \in StreamToIssue : x <= y
         c == IssueSlot(unit.j, i, unit.overlap_depth)
     IN unit' = [unit EXCEPT !.queue[c] = Append(@, Pass(unit.tree, unit.level, unit.j + i)),
                             !.unreduced[c] = @ \cup {unit.j + i},
                             !.i = i + 1]
  /\ UNCHANGED <<dm, grad, param, run, cell, thr, pipe>>

\* cudaStreamSynchronize(streams[circular_fid]) returns after the inner loop
StreamSynchronize ==
  /\ unit.pc = "issue"
  /\ StreamToIssue = {}
  /\ Synchronized(unit, ConsumeSlot(unit.j, unit.overlap_depth))
  /\ unit' = [unit EXCEPT !.pc = "reduce"]
  /\ UNCHANGED <<dm, grad, param, run, cell, thr, pipe>>

\* GetBestSplitFor..Feature(active_fids[j], ...) consumes the slot's result; then
\* the next iteration, or the end of the loop and of FindBestSplits
StreamReduce ==
  /\ unit.pc = "reduce"
  /\ LET c == ConsumeSlot(unit.j, unit.overlap_depth)
     IN unit' = [unit EXCEPT !.unreduced[c] = @ \ {unit.j},
                             !.j = unit.j + 1,
                             !.i = 0,
                             !.pc = IF (unit.j + 1) < unit.take THEN "issue" ELSE "UpdateTree"]
  /\ UNCHANGED <<dm, grad, param, run, cell, thr, pipe>>

\* FindBestSplits has returned: UpdateTree and UpdateNodeIndex work on the host
\* (UpdateNodeIndex rewrites _rowIndex2Node), and the loop of GrowTree goes on
StreamUpdate ==
  /\ unit.pc = "UpdateTree"
  /\ unit' = [unit EXCEPT !.level = unit.level + 1,
                          !.pc = IF (unit.level + 2) < unit.depth THEN "FindBestSplits"
                                 ELSE "UpdateLeafWeight"]
  /\ UNCHANGED <<dm, grad, param, run, cell, thr, pipe>>

\* UpdateLeafWeight and the return of GrowTree; the caller grows the next tree
StreamNextTree ==
  /\ unit.pc = "UpdateLeafWeight"
  /\ unit' = [unit EXCEPT !.tree = unit.tree + 1,
                          !.pc = IF (unit.tree + 1) < unit.trees THEN "GrowTree" ELSE "grown"]
  /\ UNCHANGED <<dm, grad, param, run, cell, thr, pipe>>

\* The stream of slot c is idle and starts the operation at the head of its queue
DeviceStart(c) ==
  /\ c \in DOMAIN unit.queue
  /\ unit.running[c] = NoOp
  /\ unit.queue[c] # <<>>
  /\ unit' = [unit EXCEPT !.running[c] = Head(unit.queue[c]), !.queue[c] = Tail(@)]
  /\ UNCHANGED <<dm, grad, param, run, cell, thr, pipe>>

\* The stream of slot c completes the operation it runs: a copy has filled grad_d
\* or row2Node
DeviceFinish(c) ==
  /\ c \in DOMAIN unit.queue
  /\ unit.running[c] # NoOp
  /\ LET op == unit.running[c]
     IN unit' = [unit EXCEPT !.running[c] = NoOp,
                             !.grad_d = IF op.kind = "grad" THEN op.tree ELSE @,
                             !.row2Node = IF op.kind = "map" THEN <<op.tree, op.level>> ELSE @]
  /\ UNCHANGED <<dm, grad, param, run, cell, thr, pipe>>

NextStream ==
  \/ StreamGrowTree
  \/ StreamFindBestSplits
  \/ StreamSynchronize0
  \/ StreamIssue
  \/ StreamSynchronize
  \/ StreamReduce
  \/ StreamUpdate
  \/ StreamNextTree
  \/ \E c \in 0..(MaxStreamOverlap - 1) : DeviceStart(c)
  \/ \E c \in 0..(MaxStreamOverlap - 1) : DeviceFinish(c)

SpecStream == InitStream /\ [][NextStream]_vars

----------------------------------------------------------------------------
(* Properties of the streams, under SpecStream *)

StreamOn == "grad_d" \in DOMAIN unit

\* The operations a stream has queued or runs
Outstanding(c) ==
  {unit.queue[c][k] : k \in 1..Len(unit.queue[c])} \cup ({unit.running[c]} \ {NoOp})

\* C31: when FindBestSplits has returned no stream has an operation queued or
\* running and no slot holds a feature that was issued and not consumed; a pass of
\* a level runs only when the copies of that tree's gradients and of that level's
\* row-to-leaf map have completed, grad_d and row2Node holding them; and while a
\* copy into row2Node or grad_d is queued or runs, no pass is queued or runs on any
\* stream, so the overwrite never meets a kernel that reads the buffer.
C31_StreamsQuiescent ==
  StreamOn =>
    /\ unit.pc = "UpdateTree" =>
         \A c \in DOMAIN unit.queue : Outstanding(c) = {} /\ unit.unreduced[c] = {}
    /\ \A c \in DOMAIN unit.queue :
         unit.running[c].kind = "pass" =>
           /\ unit.row2Node = <<unit.running[c].tree, unit.running[c].level>>
           /\ unit.grad_d = unit.running[c].tree
    /\ \A c, d \in DOMAIN unit.queue :
         \A op \in Outstanding(c), oq \in Outstanding(d) :
           ~(op.kind \in {"map", "grad"} /\ oq.kind = "pass")

\* FindBestSplits has returned from the second level of the second tree, after
\* more features than slots on two slots or more: row2Node was overwritten three
\* times after kernels had read it
C31_Witness ==
  /\ StreamOn
  /\ unit.pc = "UpdateTree"
  /\ unit.tree = 1 /\ unit.level = 1
  /\ unit.overlap_depth >= 2 /\ unit.take > unit.overlap_depth
  /\ unit.row2Node = <<1, 1>> /\ unit.grad_d = 1

====
